---- MODULE Spec2Model ----
(***************************************************************************)
(* Model of the Copter Auto flight mode controller (ModeAuto) of           *)
(* ArduCopter/mode_auto.cpp: mode entry and exit, the run() tick, the      *)
(* mission callbacks start_command / verify_command and the submode        *)
(* bookkeeping.  Every handler is an operator from a controller record to  *)
(* a controller record; the record carries a log of the calls the handler  *)
(* made on its collaborators (mission library, GCS, motors, attitude       *)
(* controller, failsafes), so that properties about calls are state        *)
(* properties of the step that made them.                                  *)
(***************************************************************************)
EXTENDS Integers, Sequences, FiniteSets, TLC

\* ------------------------------------------------------------------ bounds
\* largest p1 parameter word carried by a modelled mission command
MaxP1 == 1
\* largest speed (m/s) carried by a modelled DO_CHANGE_SPEED command
MaxSpeed == 1
\* number of mission.start_or_resume() calls counted within one Auto session
MaxStarts == 2
\* number of EKF-failsafe re-checks counted by the submode specification
MaxRechecks == 3

\* ------------------------------------------------------------- enumerations
\* ModeAuto::SubMode, as dispatched by the switch in ModeAuto::run
SubModes ==
  {"TAKEOFF", "WP", "LAND", "RTL", "CIRCLE_MOVE_TO_EDGE", "CIRCLE", "NAVGUIDED",
   "LOITER", "LOITER_TO_ALT", "NAV_PAYLOAD_PLACE", "NAV_SCRIPT_TIME",
   "NAV_ATTITUDE_TIME"}

\* AutoYaw::Mode values the Auto controller sets or tests
YawModes == {"HOLD", "DEFAULT", "ROI", "FIXED", "CIRCLE", "ANGLE_RATE"}

\* command ids handled by the switch of ModeAuto::start_command
StartIds ==
  {"NAV_VTOL_TAKEOFF", "NAV_TAKEOFF", "NAV_WAYPOINT", "NAV_VTOL_LAND", "NAV_LAND",
   "NAV_LOITER_UNLIM", "NAV_LOITER_TURNS", "NAV_LOITER_TIME", "NAV_LOITER_TO_ALT",
   "NAV_RETURN_TO_LAUNCH", "NAV_SPLINE_WAYPOINT", "NAV_GUIDED_ENABLE", "NAV_DELAY",
   "NAV_PAYLOAD_PLACE", "NAV_SCRIPT_TIME", "NAV_ATTITUDE_TIME",
   "CONDITION_DELAY", "CONDITION_DISTANCE", "CONDITION_YAW",
   "DO_CHANGE_SPEED", "DO_SET_HOME", "DO_SET_ROI_LOCATION", "DO_SET_ROI_NONE",
   "DO_SET_ROI", "DO_MOUNT_CONTROL", "DO_GUIDED_LIMITS", "DO_WINCH",
   "DO_RETURN_PATH_START", "DO_LAND_START"}

\* command ids handled by a case label of ModeAuto::verify_command
VerifyIds == StartIds \cup {"DO_FENCE_ENABLE"}

\* ids with no case label in either switch
UnknownIds == {"UNKNOWN"}

CmdIds == VerifyIds \cup UnknownIds

\* AP_Mission::Mission_Command, reduced to the fields the dispatcher reads:
\* id, p1, whether content.location has a non-zero lat/lng, and the content of
\* a DO_CHANGE_SPEED command
Cmd(id, p1, loc, speed_type, target_ms) ==
  [id |-> id, p1 |-> p1, loc |-> loc, speed_type |-> speed_type, target_ms |-> target_ms]

SpeedTypes == {"AIRSPEED", "GROUNDSPEED", "CLIMB_SPEED", "DESCENT_SPEED"}

\* ids whose handlers read p1
P1Ids == {"NAV_WAYPOINT", "NAV_SPLINE_WAYPOINT", "NAV_LOITER_TIME", "NAV_GUIDED_ENABLE",
          "NAV_PAYLOAD_PLACE", "DO_GUIDED_LIMITS"}
\* ids whose handlers branch on the command's location being given
LocIds == {"NAV_LAND", "NAV_VTOL_LAND", "NAV_PAYLOAD_PLACE", "DO_SET_ROI",
           "DO_SET_ROI_LOCATION"}

CmdsOf(id) ==
  IF id = "DO_CHANGE_SPEED"
  THEN {Cmd(id, 0, FALSE, st, t) : st \in SpeedTypes, t \in 0..MaxSpeed}
  ELSE {Cmd(id, p1, loc, "AIRSPEED", 0) :
          p1 \in (IF id \in P1Ids THEN 0..MaxP1 ELSE {0}),
          loc \in (IF id \in LocIds THEN BOOLEAN ELSE {FALSE})}

Cmds == UNION {CmdsOf(id) : id \in CmdIds}

\* the mission library's "no navigation command loaded"
NoCmd == Cmd("NONE", 0, FALSE, "AIRSPEED", 0)

\* The missions flown.  A mission is the set of commands stored in it; the mission
\* library may step from any of them to any other (jumps, a changed current item).
\* Each mission mixes the commands of one id with NAV_ATTITUDE_TIME commands, the
\* command whose submode is left with an EKF failsafe re-check.
Missions == {CmdsOf(id) \cup CmdsOf("NAV_ATTITUDE_TIME") : id \in CmdIds}

\* ------------------------------------------------------------------- state
VARIABLES
  flightmode,              \* copter.flightmode: "AUTO" when it is &copter.mode_auto
  _mode,                   \* ModeAuto::_mode, the active submode
  waiting_to_start,        \* ModeAuto::waiting_to_start
  auto_RTL,                \* ModeAuto::auto_RTL
  desired_speed_override,  \* ModeAuto::desired_speed_override {xy, up, down}
  auto_yaw,                \* auto_yaw.mode()
  guided_limits,           \* copter.mode_guided limits: TRUE when some limit is set
  state,                   \* ModeAuto::state, the land state
  mission,                 \* AP_Mission: [state, nav_cmd, force_resume, items]
  session_starts,          \* mission.start_or_resume() calls since the last successful init
  rechecks,                \* failsafe_ekf_recheck() calls made so far (submode specification)
  last,                    \* the last operation: its name, inputs and return value
  log,                     \* calls the last operation made on its collaborators
  call,                    \* a function application: [op, in, out]
  loiter_to_alt,           \* ModeAuto::loiter_to_alt
  payload_place,           \* ModeAuto::payload_place
  circle_last_num_complete,\* ModeAuto::circle_last_num_complete
  nav_scripting,           \* ModeAuto::nav_scripting: [done, id]
  loiter_time,             \* ModeAuto::loiter_time: millis() at arrival, 0 when not started
  loiter_time_max          \* ModeAuto::loiter_time_max: the dwell asked for (seconds)

vars == <<flightmode, _mode, waiting_to_start, auto_RTL, desired_speed_override,
          auto_yaw, guided_limits, state, mission, session_starts, rechecks, last, log,
          call, loiter_to_alt, payload_place, circle_last_num_complete, nav_scripting,
          loiter_time, loiter_time_max>>

\* the dwell timer of the waypoint and loiter commands
dwell == <<loiter_time, loiter_time_max>>

\* the state of the sub-controllers and helper functions, which the mission-level
\* operations reach only through the answers they are given
sub == <<call, loiter_to_alt, payload_place, circle_last_num_complete, nav_scripting,
         loiter_time, loiter_time_max>>

\* the controller record the handlers work on
S ==
  [flightmode |-> flightmode, _mode |-> _mode, waiting_to_start |-> waiting_to_start,
   auto_RTL |-> auto_RTL, desired_speed_override |-> desired_speed_override,
   auto_yaw |-> auto_yaw, guided_limits |-> guided_limits, state |-> state,
   mission |-> mission, session_starts |-> session_starts,
   ret |-> FALSE, log |-> <<>>]

\* append one call to the record's log
Call(s, e) == [s EXCEPT !.log = Append(@, e)]

\* number of occurrences of e in a log
Count(l, e) == Cardinality({i \in 1..Len(l) : l[i] = e})

Has(l, e) == \E i \in 1..Len(l) : l[i] = e

NoSpeed == [xy |-> 0, up |-> 0, down |-> 0]


\* ------------------------------------------------- collaborators' answers
\* What the collaborators answer during one start_command call:
\*   ekf_bad      failsafe_ekf_recheck() finds the EKF failsafe active and changes flight mode
\*   loc_init     copter.current_loc.initialised()
\*   terrain_alt  dest is ABOVE_TERRAIN and wp_nav->get_terrain_offset_cm() succeeds
\*   alt_ok       Location::get_alt_cm() succeeds
\*   set_dest_ok  wp_nav->set_wp_destination_loc() / set_spline_destination_loc() succeeds
\*   shift_ok     shift_alt_to_current_alt() succeeds
\*   next_ok      wp_nav->set_wp_destination_next_loc() / set_spline_destination_next_loc() succeeds
\*   rtl_ok       copter.mode_rtl.init(true)
\*   guided_ok    copter.mode_guided.init(true)
\*   far          dist_to_edge > 300
\*   outside      dist_to_center > radius and dist_to_center > 500
\*   wp_yaw_none  copter.g.wp_yaw_behavior == WP_YAW_BEHAVIOR_NONE
\*   pan          the camera mount does the yaw itself
\*   mount        copter.camera_mount.get_mount_type() != AP_Mount::Type::None
DefaultEnv ==
  [ekf_bad |-> FALSE, loc_init |-> TRUE, terrain_alt |-> FALSE, alt_ok |-> TRUE,
   set_dest_ok |-> TRUE, shift_ok |-> TRUE, next_ok |-> TRUE, rtl_ok |-> TRUE,
   guided_ok |-> TRUE, far |-> FALSE, outside |-> FALSE, wp_yaw_none |-> FALSE,
   pan |-> FALSE, mount |-> FALSE]

\* ------------------------------------------------------------ mode exit
\* ModeAuto::exit - stop mission when we leave auto mode
exit(s) ==
  LET s1 == IF s.mission.state = "RUNNING"
            THEN Call([s EXCEPT !.mission.state = "STOPPED"], "mission.stop")
            ELSE s
  IN [s1 EXCEPT !.auto_RTL = FALSE]

\* Copter::set_mode to a mode other than Auto, succeeding: the old mode's exit()
\* runs and copter.flightmode no longer is Auto
set_mode_other(s, name) ==
  LET s1 == Call(s, name)
  IN IF s1.flightmode = "AUTO"
     THEN [exit(s1) EXCEPT !.flightmode = "OTHER"]
     ELSE s1

\* Copter::failsafe_ekf_recheck - re-evaluates the EKF failsafe, which may change
\* the flight mode when the failsafe is active
failsafe_ekf_recheck(s, e) ==
  LET s1 == Call(s, "failsafe_ekf_recheck")
  IN IF e.ekf_bad THEN set_mode_other(s1, "set_mode:EKF_FAILSAFE") ELSE s1

\* ------------------------------------------------------------ set_submode
\* set_submode without its early return for an unchanged submode
set_submode_no_early_return(s, new_submode, e) ==
  LET old_submode == s._mode
      s1 == [s EXCEPT !._mode = new_submode]
  IN IF old_submode = "NAV_ATTITUDE_TIME"
     THEN failsafe_ekf_recheck(s1, e)
     ELSE s1

\* ModeAuto::set_submode
set_submode(s, new_submode, e) ==
  IF new_submode = s._mode
  THEN s
  ELSE LET old_submode == s._mode
           s1 == [s EXCEPT !._mode = new_submode]
       IN IF old_submode = "NAV_ATTITUDE_TIME"
          THEN failsafe_ekf_recheck(s1, e)
          ELSE s1

\* ------------------------------------------------------------------ init
\* init with the submode and the waiting flag assigned before the takeoff test
init_assigns_before_test(s, ignore_checks, i) ==
  LET s0 == [s EXCEPT !.auto_RTL = FALSE]
  IN IF i.present \/ ignore_checks
     THEN LET s1 == [s0 EXCEPT !._mode = "LOITER", !.waiting_to_start = TRUE]
          IN IF i.armed /\ i.land_complete /\ ~i.starts_with_takeoff
             THEN [Call(s1, "gcs:Auto: Missing Takeoff Cmd") EXCEPT !.ret = FALSE]
             ELSE [s1 EXCEPT
                     !.auto_yaw = IF @ = "ROI" THEN "HOLD" ELSE @,
                     !.desired_speed_override = NoSpeed,
                     !.guided_limits = FALSE,
                     !.session_starts = 0,
                     !.ret = TRUE]
     ELSE [s0 EXCEPT !.ret = FALSE]

\* init without the reset of a carried-over ROI yaw mode
init_keeps_roi(s, ignore_checks, i) ==
  LET s0 == [s EXCEPT !.auto_RTL = FALSE]
  IN IF i.present \/ ignore_checks
     THEN IF i.armed /\ i.land_complete /\ ~i.starts_with_takeoff
          THEN [Call(s0, "gcs:Auto: Missing Takeoff Cmd") EXCEPT !.ret = FALSE]
          ELSE [s0 EXCEPT
                  !._mode = "LOITER",
                  !.desired_speed_override = NoSpeed,
                  !.waiting_to_start = TRUE,
                  !.guided_limits = FALSE,
                  !.session_starts = 0,
                  !.ret = TRUE]
     ELSE [s0 EXCEPT !.ret = FALSE]

\* ModeAuto::init(ignore_checks); i holds mission.present(), motors->armed(),
\* copter.ap.land_complete and mission.starts_with_takeoff_cmd()
init(s, ignore_checks, i) ==
  LET s0 == [s EXCEPT !.auto_RTL = FALSE]
  IN IF i.present \/ ignore_checks
     THEN IF i.armed /\ i.land_complete /\ ~i.starts_with_takeoff
          THEN [Call(s0, "gcs:Auto: Missing Takeoff Cmd") EXCEPT !.ret = FALSE]
          ELSE [s0 EXCEPT
                  !._mode = "LOITER",
                  !.auto_yaw = IF @ = "ROI" THEN "HOLD" ELSE @,
                  !.desired_speed_override = NoSpeed,
                  !.waiting_to_start = TRUE,
                  !.guided_limits = FALSE,
                  !.session_starts = 0,
                  !.ret = TRUE]
     ELSE [s0 EXCEPT !.ret = FALSE]

\* -------------------------------------------------- sub-controller starts
\* AutoYaw::set_mode_to_default
set_mode_to_default(s) == [s EXCEPT !.auto_yaw = "DEFAULT"]

\* loiter_start entering the submode before it tests the position estimate
loiter_start_assigns_first(s, position_ok) ==
  IF ~position_ok
  THEN [s EXCEPT !._mode = "LOITER", !.ret = FALSE]
  ELSE [s EXCEPT !._mode = "LOITER", !.auto_yaw = "HOLD", !.ret = TRUE]

\* ModeAuto::loiter_start(position_ok)
loiter_start(s, position_ok) ==
  IF ~position_ok
  THEN [s EXCEPT !.ret = FALSE]
  ELSE [s EXCEPT !._mode = "LOITER", !.auto_yaw = "HOLD", !.ret = TRUE]

\* ModeAuto::rtl_start
rtl_start(s, e) ==
  IF e.rtl_ok
  THEN set_submode(s, "RTL", e)
  ELSE Call(s, "INTERNAL_ERROR")

\* ModeAuto::takeoff_start
takeoff_start(s, e) ==
  IF ~e.loc_init
  THEN Call(s, "INTERNAL_ERROR")
  ELSE LET s1 == IF ~e.terrain_alt /\ ~e.alt_ok
                 THEN Call(s, "LOG_ERROR:MISSING_TERRAIN_DATA")
                 ELSE s
           s2 == Call([s1 EXCEPT !.auto_yaw = "HOLD"], "auto_takeoff.start")
       IN set_submode(s2, "TAKEOFF", e)

\* ModeAuto::wp_start; the record's ret is the function's result
wp_start(s, e) ==
  IF ~e.set_dest_ok
  THEN [s EXCEPT !.ret = FALSE]
  ELSE LET s1 == IF s.auto_yaw # "ROI" /\ ~(s.auto_yaw = "FIXED" /\ e.wp_yaw_none)
                 THEN set_mode_to_default(s)
                 ELSE s
       IN [set_submode(s1, "WP", e) EXCEPT !.ret = TRUE]

\* ModeAuto::land_start
land_start(s, e) ==
  set_submode(Call([s EXCEPT !.auto_yaw = "HOLD"], "land_start"), "LAND", e)

\* ModeAuto::circle_start
circle_start(s, e) ==
  LET s1 == Call(s, "circle_nav.init")
      s2 == IF s1.auto_yaw # "ROI" THEN [s1 EXCEPT !.auto_yaw = "CIRCLE"] ELSE s1
  IN set_submode(s2, "CIRCLE", e)

\* ModeAuto::circle_movetoedge_start
circle_movetoedge_start(s, e) ==
  IF e.far
  THEN LET s1 == IF ~e.set_dest_ok THEN Call(s, "failsafe_terrain_on_event") ELSE s
           s2 == IF s1.auto_yaw # "ROI"
                 THEN IF e.outside
                      THEN set_mode_to_default(s1)
                      ELSE [s1 EXCEPT !.auto_yaw = "HOLD"]
                 ELSE s1
       IN set_submode(s2, "CIRCLE_MOVE_TO_EDGE", e)
  ELSE circle_start(s, e)

\* ModeAuto::nav_guided_start
nav_guided_start(s, e) ==
  IF ~e.guided_ok
  THEN Call(s, "INTERNAL_ERROR")
  ELSE set_submode(Call(s, "mode_guided.limit_init_time_and_pos"), "NAVGUIDED", e)


\* ------------------------------------------------------- start handlers
\* ModeAuto::do_nav_wp
do_nav_wp(s, cmd, e) ==
  LET s1 == wp_start(s, e)
  IN IF ~s1.ret
     THEN Call(s1, "failsafe_terrain_on_event")
     ELSE IF cmd.p1 = 0 /\ ~e.next_ok      \* set_next_wp fails
          THEN Call(s1, "failsafe_terrain_on_event")
          ELSE s1

\* do_land flying to the command's location whether one is given or not
do_land_always_flies(s, cmd, e) ==
  LET s1 == [s EXCEPT !.state = "FlyToLocation"]
      s2 == IF ~e.shift_ok
            THEN Call(Call(s1, "LOG_ERROR:MISSING_TERRAIN_DATA"),
                      "gcs:Land: no terrain data, using alt-above-home")
            ELSE s1
      s3 == wp_start(s2, e)
  IN IF ~s3.ret THEN Call(s3, "failsafe_terrain_on_event") ELSE s3

\* ModeAuto::do_land
do_land(s, cmd, e) ==
  IF cmd.loc
  THEN LET s1 == [s EXCEPT !.state = "FlyToLocation"]
           s2 == IF ~e.shift_ok
                 THEN Call(Call(s1, "LOG_ERROR:MISSING_TERRAIN_DATA"),
                           "gcs:Land: no terrain data, using alt-above-home")
                 ELSE s1
           s3 == wp_start(s2, e)
       IN IF ~s3.ret THEN Call(s3, "failsafe_terrain_on_event") ELSE s3
  ELSE land_start([s EXCEPT !.state = "Descending"], e)

\* ModeAuto::do_loiter_unlimited
do_loiter_unlimited(s, cmd, e) ==
  LET s1 == wp_start(s, e)
  IN IF ~s1.ret THEN Call(s1, "failsafe_terrain_on_event") ELSE s1

\* ModeAuto::do_circle
do_circle(s, cmd, e) == circle_movetoedge_start(s, e)

\* ModeAuto::do_loiter_time
do_loiter_time(s, cmd, e) == do_loiter_unlimited(s, cmd, e)

\* ModeAuto::do_loiter_to_alt
do_loiter_to_alt(s, cmd, e) ==
  LET s1 == do_loiter_unlimited(s, cmd, e)
  IN IF ~e.alt_ok
     THEN Call(s1, "gcs:bad do_loiter_to_alt")
     ELSE set_submode(s1, "LOITER_TO_ALT", e)

\* ModeAuto::do_spline_wp
do_spline_wp(s, cmd, e) ==
  IF ~e.set_dest_ok
  THEN Call(s, "failsafe_terrain_on_event")
  ELSE IF cmd.p1 = 0 /\ ~e.next_ok
       THEN Call(s, "failsafe_terrain_on_event")
       ELSE LET s1 == IF s.auto_yaw # "ROI" /\ ~(s.auto_yaw = "FIXED" /\ e.wp_yaw_none)
                      THEN set_mode_to_default(s)
                      ELSE s
            IN set_submode(s1, "WP", e)

\* ModeAuto::do_nav_guided_enable
do_nav_guided_enable(s, cmd, e) ==
  IF cmd.p1 > 0 THEN nav_guided_start(s, e) ELSE s

\* ModeAuto::do_guided_limits: a p1 of zero sets a zero (absent) limit
do_guided_limits(s, cmd) == [s EXCEPT !.guided_limits = (cmd.p1 > 0)]

\* ModeAuto::do_nav_delay
do_nav_delay(s, cmd) == Call(s, "gcs:Delaying")

\* ModeAuto::do_payload_place
do_payload_place(s, cmd, e) ==
  IF cmd.loc
  THEN LET s1 == IF ~e.shift_ok
                 THEN Call(Call(s, "LOG_ERROR:MISSING_TERRAIN_DATA"),
                           "gcs:PayloadPlace: no terrain data, using alt-above-home")
                 ELSE s
           s2 == wp_start(s1, e)
       IN IF ~s2.ret
          THEN Call(s2, "failsafe_terrain_on_event")
          ELSE set_submode(s2, "NAV_PAYLOAD_PLACE", e)
  ELSE \* PayloadPlace::start_descent
       set_submode([s EXCEPT !.auto_yaw = "HOLD"], "NAV_PAYLOAD_PLACE", e)

\* ModeAuto::do_nav_script_time
do_nav_script_time(s, cmd, e) ==
  IF e.guided_ok THEN set_submode(s, "NAV_SCRIPT_TIME", e) ELSE s

\* ModeAuto::do_nav_attitude_time
do_nav_attitude_time(s, cmd, e) == set_submode(s, "NAV_ATTITUDE_TIME", e)

\* ModeAuto::do_yaw - AutoYaw::set_fixed_yaw_rad
do_yaw(s, cmd) == [s EXCEPT !.auto_yaw = "FIXED"]

\* ModeAuto::do_change_speed
do_change_speed(s, cmd) ==
  IF cmd.target_ms > 0
  THEN CASE cmd.speed_type = "CLIMB_SPEED" ->
              [s EXCEPT !.desired_speed_override.up = cmd.target_ms]
         [] cmd.speed_type = "DESCENT_SPEED" ->
              [s EXCEPT !.desired_speed_override.down = cmd.target_ms]
         [] OTHER ->
              [s EXCEPT !.desired_speed_override.xy = cmd.target_ms]
  ELSE s

\* ModeAuto::do_mount_control: a mount without pan control has the whole vehicle
\* yawed instead - AutoYaw::set_yaw_angle_offset_deg, which leaves the yaw
\* controller following the offset angle
do_mount_control(s, cmd, e) ==
  LET s1 == IF e.mount /\ ~e.pan
            THEN Call([s EXCEPT !.auto_yaw = "ANGLE_RATE"], "auto_yaw.set_yaw_angle_offset_deg")
            ELSE s
  IN Call(s1, "camera_mount.set_angle_target")

\* ModeAuto::do_roi - AutoYaw::set_roi: a zero location turns the ROI off
do_roi(s, cmd, e) ==
  IF ~cmd.loc
  THEN set_mode_to_default(s)
  ELSE IF e.pan THEN s ELSE [s EXCEPT !.auto_yaw = "ROI"]

\* start_command returning what the handler left instead of true
Ok_handler_result(s) == s

\* a case of start_command's switch ends in break and the function returns true
Ok(s) == [s EXCEPT !.ret = TRUE]

\* ModeAuto::start_command; the record's ret is the function's result
start_command(s, cmd, e) ==
  LET s0 == Call(s, "start_command")
      id == cmd.id
      r == CASE id \in {"NAV_VTOL_TAKEOFF", "NAV_TAKEOFF"} -> Ok(takeoff_start(s0, e))
             [] id = "NAV_WAYPOINT" -> Ok(do_nav_wp(s0, cmd, e))
             [] id \in {"NAV_VTOL_LAND", "NAV_LAND"} -> Ok(do_land(s0, cmd, e))
             [] id = "NAV_LOITER_UNLIM" -> Ok(do_loiter_unlimited(s0, cmd, e))
             [] id = "NAV_LOITER_TURNS" -> Ok(do_circle(s0, cmd, e))
             [] id = "NAV_LOITER_TIME" -> Ok(do_loiter_time(s0, cmd, e))
             [] id = "NAV_LOITER_TO_ALT" -> Ok(do_loiter_to_alt(s0, cmd, e))
             [] id = "NAV_RETURN_TO_LAUNCH" -> Ok(rtl_start(s0, e))
             [] id = "NAV_SPLINE_WAYPOINT" -> Ok(do_spline_wp(s0, cmd, e))
             [] id = "NAV_GUIDED_ENABLE" -> Ok(do_nav_guided_enable(s0, cmd, e))
             [] id = "NAV_DELAY" -> Ok(do_nav_delay(s0, cmd))
             [] id = "NAV_PAYLOAD_PLACE" -> Ok(do_payload_place(s0, cmd, e))
             [] id = "NAV_SCRIPT_TIME" -> Ok(do_nav_script_time(s0, cmd, e))
             [] id = "NAV_ATTITUDE_TIME" -> Ok(do_nav_attitude_time(s0, cmd, e))
             [] id \in {"CONDITION_DELAY", "CONDITION_DISTANCE"} -> Ok(s0)
             [] id = "CONDITION_YAW" -> Ok(do_yaw(s0, cmd))
             [] id = "DO_CHANGE_SPEED" -> Ok(do_change_speed(s0, cmd))
             [] id = "DO_SET_HOME" -> Ok(Call(s0, "set_home"))
             [] id \in {"DO_SET_ROI_LOCATION", "DO_SET_ROI_NONE", "DO_SET_ROI"} ->
                  Ok(do_roi(s0, cmd, e))
             [] id = "DO_MOUNT_CONTROL" -> Ok(do_mount_control(s0, cmd, e))
             [] id = "DO_GUIDED_LIMITS" -> Ok(do_guided_limits(s0, cmd))
             [] id = "DO_WINCH" -> Ok(Call(s0, "winch"))
             [] id \in {"DO_RETURN_PATH_START", "DO_LAND_START"} -> Ok(s0)
             [] OTHER -> [s0 EXCEPT !.ret = FALSE]
  IN r


\* ------------------------------------------------------ verify handlers
\* What the collaborators answer during one verify_command call:
\*   reached   wp_nav->reached_wp_destination()
\*   done      the command's own completion condition: takeoff complete, dwell or
\*             delay elapsed, turns completed, altitude reached, RTL finished,
\*             limit breached, script done, distance or yaw reached
\*   landed    copter.ap.land_complete and spool state GROUND_IDLE
\*   continue  mission.continue_after_land_check_for_takeoff()
\*   armed     copter.motors->armed()
\*   ekf_bad   failsafe_ekf_recheck() finds the EKF failsafe active
DefaultVenv ==
  [reached |-> FALSE, done |-> FALSE, landed |-> FALSE, continue |-> TRUE,
   armed |-> TRUE, ekf_bad |-> FALSE]

\* the start-handler answers a verify handler needs when it starts a controller
EnvOf(v) == [DefaultEnv EXCEPT !.ekf_bad = v.ekf_bad]

Ret(s, b) == [s EXCEPT !.ret = b]

\* ModeAuto::verify_land
verify_land(s, v) ==
  CASE s.state = "FlyToLocation" ->
         IF v.reached
         THEN Ret([land_start(s, EnvOf(v)) EXCEPT !.state = "Descending"], FALSE)
         ELSE Ret(s, FALSE)
    [] s.state = "Descending" ->
         IF v.landed /\ ~v.continue /\ v.armed
         THEN Ret(Call(s, "disarm:LANDED"), FALSE)
         ELSE Ret(s, v.landed)
    [] OTHER -> Ret(Call(s, "INTERNAL_ERROR"), TRUE)

\* ModeAuto::verify_nav_wp
verify_nav_wp(s, cmd, v) ==
  IF ~v.reached
  THEN Ret(s, FALSE)
  ELSE IF v.done
       THEN Ret(Call(s, "gcs:Reached command"), TRUE)
       ELSE Ret(s, FALSE)

\* ModeAuto::verify_loiter_time
verify_loiter_time(s, cmd, v) ==
  IF ~v.reached
  THEN Ret(s, FALSE)
  ELSE IF v.done
       THEN Ret(Call(s, "gcs:Reached command"), TRUE)
       ELSE Ret(s, FALSE)

\* ModeAuto::verify_circle
verify_circle(s, cmd, v) ==
  IF s._mode = "CIRCLE_MOVE_TO_EDGE"
  THEN IF v.reached
       THEN Ret(circle_start(s, EnvOf(v)), FALSE)
       ELSE Ret(s, FALSE)
  ELSE Ret(s, v.done)

\* ModeAuto::verify_yaw
verify_yaw(s, v) == Ret([s EXCEPT !.auto_yaw = "FIXED"], v.done)

\* ModeAuto::verify_nav_guided_enable
verify_nav_guided_enable(s, cmd, v) ==
  IF cmd.p1 = 0 THEN Ret(s, TRUE) ELSE Ret(s, v.done)

\* the switch of ModeAuto::verify_command and the item-reached message after it
verify_switch(s, cmd, v) ==
  LET id == cmd.id
      r == CASE id \in {"NAV_VTOL_TAKEOFF", "NAV_TAKEOFF"} -> Ret(s, v.done)
             [] id = "NAV_WAYPOINT" -> verify_nav_wp(s, cmd, v)
             [] id \in {"NAV_VTOL_LAND", "NAV_LAND"} -> verify_land(s, v)
             [] id = "NAV_PAYLOAD_PLACE" -> Ret(s, v.done)
             [] id = "NAV_LOITER_UNLIM" -> Ret(s, FALSE)
             [] id = "NAV_LOITER_TURNS" -> verify_circle(s, cmd, v)
             [] id = "NAV_LOITER_TIME" -> verify_loiter_time(s, cmd, v)
             [] id = "NAV_LOITER_TO_ALT" -> Ret(s, v.done)
             [] id = "NAV_RETURN_TO_LAUNCH" -> Ret(s, v.done)
             [] id = "NAV_SPLINE_WAYPOINT" -> verify_nav_wp(s, cmd, v)
             [] id = "NAV_GUIDED_ENABLE" -> verify_nav_guided_enable(s, cmd, v)
             [] id = "NAV_DELAY" -> Ret(s, v.done)
             [] id = "NAV_SCRIPT_TIME" -> Ret(s, v.done)
             [] id = "NAV_ATTITUDE_TIME" -> Ret(s, v.done)
             [] id \in {"CONDITION_DELAY", "CONDITION_DISTANCE"} -> Ret(s, v.done)
             [] id = "CONDITION_YAW" -> verify_yaw(s, v)
             [] id \in {"DO_CHANGE_SPEED", "DO_SET_HOME", "DO_SET_ROI_LOCATION",
                        "DO_SET_ROI_NONE", "DO_SET_ROI", "DO_MOUNT_CONTROL",
                        "DO_GUIDED_LIMITS", "DO_FENCE_ENABLE", "DO_WINCH",
                        "DO_RETURN_PATH_START", "DO_LAND_START"} -> Ret(s, TRUE)
             [] OTHER -> Ret(Call(s, "gcs:Skipping invalid cmd"), TRUE)
  IN IF id = "NAV_LOITER_TO_ALT"
     THEN r                                   \* returns from inside the switch
     ELSE IF r.ret THEN Call(r, "mission_item_reached") ELSE r

\* verify_command without the test that Auto is the active flight mode
verify_command_unguarded(s, cmd, v) == verify_switch(s, cmd, v)

\* ModeAuto::verify_command; the record's ret is the function's result
verify_command(s, cmd, v) ==
  IF s.flightmode # "AUTO"
  THEN Ret(s, FALSE)
  ELSE verify_switch(s, cmd, v)


\* ------------------------------------------------- sub-controller ticks
\* What one tick reads:
\*   dol         is_disarmed_or_landed()
\*   interlock   motors->get_interlock()
\*   reached_xy  loiter_to_alt.reached_destination_xy after this tick's arrival test
DefaultTick == [dol |-> FALSE, interlock |-> TRUE, reached_xy |-> FALSE]

\* Mode::make_safe_ground_handling
make_safe_ground_handling(s) == Call(s, "make_safe_ground_handling")

\* ModeAuto::takeoff_run
takeoff_run(s, t) == Call(Call(s, "tick:takeoff_run"), "auto_takeoff.run")

\* the body of ModeAuto::wp_run
wp_run_body(s, t) ==
  IF t.dol
  THEN make_safe_ground_handling(s)
  ELSE Call(Call(Call(s, "THROTTLE_UNLIMITED"), "wp_nav.update_wpnav"),
            "input_thrust_vector_heading")

\* ModeAuto::wp_run
wp_run(s, t) == wp_run_body(Call(s, "tick:wp_run"), t)

\* ModeAuto::land_run
land_run(s, t) ==
  LET s0 == Call(s, "tick:land_run")
  IN IF t.dol
     THEN make_safe_ground_handling(s0)
     ELSE Call(Call(s0, "THROTTLE_UNLIMITED"), "land_run_normal_or_precland")

\* ModeAuto::rtl_run
rtl_run(s, t) == Call(Call(s, "tick:rtl_run"), "mode_rtl.run")

\* ModeAuto::circle_run
circle_run(s, t) ==
  Call(Call(Call(s, "tick:circle_run"), "circle_nav.update"), "input_thrust_vector_heading")

\* ModeAuto::nav_guided_run
nav_guided_run(s, t) == Call(Call(s, "tick:nav_guided_run"), "mode_guided.run")

\* ModeAuto::loiter_run
loiter_run(s, t) ==
  LET s0 == Call(s, "tick:loiter_run")
  IN IF t.dol
     THEN make_safe_ground_handling(s0)
     ELSE Call(Call(Call(s0, "THROTTLE_UNLIMITED"), "wp_nav.update_wpnav"),
               "input_thrust_vector_heading")

\* ModeAuto::loiter_to_alt_run
loiter_to_alt_run(s, t) ==
  LET s0 == Call(s, "tick:loiter_to_alt_run")
  IN IF t.dol \/ ~t.interlock
     THEN make_safe_ground_handling(s0)
     ELSE IF ~t.reached_xy
          THEN wp_run_body(s0, t)
          ELSE Call(Call(s0, "land_run_horizontal_control"),
                    "set_pos_target_U_from_climb_rate")

\* ModeAuto::nav_attitude_time_run
nav_attitude_time_run(s, t) ==
  LET s0 == Call(s, "tick:nav_attitude_time_run")
  IN IF t.dol \/ ~t.interlock
     THEN make_safe_ground_handling(s0)
     ELSE Call(Call(s0, "input_euler_angle_roll_pitch_yaw"),
               "set_pos_target_U_from_climb_rate")

\* PayloadPlace::run, its guard and its outputs
payload_place_run(s, t) ==
  LET s0 == Call(s, "tick:payload_place.run")
  IN IF t.dol
     THEN make_safe_ground_handling(s0)
     ELSE Call(Call(s0, "THROTTLE_UNLIMITED"), "payload_place.control")

\* the switch (_mode) of ModeAuto::run
tick(s, t) ==
  CASE s._mode = "TAKEOFF" -> takeoff_run(s, t)
    [] s._mode \in {"WP", "CIRCLE_MOVE_TO_EDGE"} -> wp_run(s, t)
    [] s._mode = "LAND" -> land_run(s, t)
    [] s._mode = "RTL" -> rtl_run(s, t)
    [] s._mode = "CIRCLE" -> circle_run(s, t)
    [] s._mode \in {"NAVGUIDED", "NAV_SCRIPT_TIME"} -> nav_guided_run(s, t)
    [] s._mode = "LOITER" -> loiter_run(s, t)
    [] s._mode = "LOITER_TO_ALT" -> loiter_to_alt_run(s, t)
    [] s._mode = "NAV_PAYLOAD_PLACE" -> payload_place_run(s, t)
    [] s._mode = "NAV_ATTITUDE_TIME" -> nav_attitude_time_run(s, t)
    [] OTHER -> s

\* --------------------------------------------------------- mission end
\* ModeAuto::exit_mission; x holds copter.ap.land_complete and copter.position_ok()
exit_mission(s, x) ==
  LET s0 == Call(s, "exit_mission")
  IN IF ~x.land_complete
     THEN LET s1 == loiter_start(s0, x.position_ok)
          IN IF ~s1.ret THEN set_mode_other(s1, "set_mode:LAND") ELSE s1
     ELSE Call(s0, "disarm:MISSIONEXIT")

\* ------------------------------------------------------ mission library
\* AP_Mission, as far as ModeAuto::run drives it.  One command is current at a
\* time; a mission step starts the following command or, at the end of the list,
\* completes the mission and calls exit_mission.  a holds the following command
\* (NoCmd at the end of the list) and the collaborators' answers to its handler.
advance(s, a, x) ==
  IF a.next = NoCmd
  THEN exit_mission([s EXCEPT !.mission.state = "COMPLETE", !.mission.nav_cmd = NoCmd], x)
  ELSE LET r == start_command(s, a.next, a.env)
       IN IF r.ret
          THEN [r EXCEPT !.mission.nav_cmd = a.next]
          ELSE [r EXCEPT !.mission.nav_cmd = NoCmd]

\* AP_Mission::start_or_resume
start_or_resume(s, a, x) ==
  LET s0 == Call([s EXCEPT !.mission.state = "RUNNING",
                           !.mission.force_resume = FALSE,
                           !.session_starts = @ + 1], "mission.start_or_resume")
  IN advance(s0, a, x)

\* AP_Mission::restart_current_nav_cmd: starts the current command again
restart_current_nav_cmd(s, ok, e) ==
  LET s0 == Call(s, "mission.restart_current_nav_cmd")
  IN IF ok /\ s.mission.state = "RUNNING" /\ s.mission.nav_cmd # NoCmd
     THEN Ret(start_command(s0, s.mission.nav_cmd, e), TRUE)
     ELSE Ret(s0, FALSE)

\* AP_Mission::update: polls the current command and advances when it is complete
update(s, v, a, x) ==
  LET s0 == Call(s, "mission.update")
  IN IF s0.mission.state # "RUNNING"
     THEN s0
     ELSE IF s0.mission.nav_cmd = NoCmd
          THEN advance(s0, a, x)
          ELSE LET r == verify_command(s0, s0.mission.nav_cmd, v)
               IN IF r.ret THEN advance(r, a, x) ELSE r

\* the mission step of run leaving waiting_to_start set after it started the mission
run_mission_keeps_waiting(s, in) ==
  IF s.waiting_to_start
  THEN IF in.origin
       THEN start_or_resume(s, in.a, in.x)
       ELSE s
  ELSE LET s1 == IF in.changed /\ s.mission.state = "RUNNING" /\ s._mode = "WP"
                 THEN LET r == restart_current_nav_cmd(s, in.restart_ok, in.renv)
                      IN IF r.ret
                         THEN Call(r, "gcs:Auto mission changed, restarted command")
                         ELSE Call(r, "gcs:Auto mission changed but failed to restart command")
                 ELSE s
       IN update(s1, in.v, in.a, in.x)

\* -------------------------------------------------------------------- run
\* the mission step of run without the test for an AHRS origin
run_mission_no_origin_test(s, in) ==
  IF s.waiting_to_start
  THEN [start_or_resume(s, in.a, in.x) EXCEPT !.waiting_to_start = FALSE]
  ELSE LET s1 == IF in.changed /\ s.mission.state = "RUNNING" /\ s._mode = "WP"
                 THEN LET r == restart_current_nav_cmd(s, in.restart_ok, in.renv)
                      IN IF r.ret
                         THEN Call(r, "gcs:Auto mission changed, restarted command")
                         ELSE Call(r, "gcs:Auto mission changed but failed to restart command")
                 ELSE s
       IN update(s1, in.v, in.a, in.x)

\* the mission step of run restarting the current command in any submode
run_mission_restart_any_submode(s, in) ==
  IF s.waiting_to_start
  THEN IF in.origin
       THEN [start_or_resume(s, in.a, in.x) EXCEPT !.waiting_to_start = FALSE]
       ELSE s
  ELSE LET s1 == IF in.changed /\ s.mission.state = "RUNNING"
                 THEN LET r == restart_current_nav_cmd(s, in.restart_ok, in.renv)
                      IN IF r.ret
                         THEN Call(r, "gcs:Auto mission changed, restarted command")
                         ELSE Call(r, "gcs:Auto mission changed but failed to restart command")
                 ELSE s
       IN update(s1, in.v, in.a, in.x)

\* the mission start/update step of ModeAuto::run
run_mission(s, in) ==
  IF s.waiting_to_start
  THEN IF in.origin
       THEN [start_or_resume(s, in.a, in.x) EXCEPT !.waiting_to_start = FALSE]
       ELSE s
  ELSE LET s1 == IF in.changed /\ s.mission.state = "RUNNING" /\ s._mode = "WP"
                 THEN LET r == restart_current_nav_cmd(s, in.restart_ok, in.renv)
                      IN IF r.ret
                         THEN Call(r, "gcs:Auto mission changed, restarted command")
                         ELSE Call(r, "gcs:Auto mission changed but failed to restart command")
                 ELSE s
       IN update(s1, in.v, in.a, in.x)

\* the Auto-RTL bookkeeping treating every mission that is not stopped as active
run_auto_rtl_active_while_running(s, in) ==
  LET auto_rtl_active == in.rtl_flags \/ s.mission.state # "STOPPED"
  IN IF s.auto_RTL /\ ~auto_rtl_active
     THEN Call([s EXCEPT !.auto_RTL = FALSE], "log:AUTO_RTL_EXIT")
     ELSE s

\* the Auto-RTL bookkeeping that ends ModeAuto::run
run_auto_rtl(s, in) ==
  LET auto_rtl_active == in.rtl_flags \/ s.mission.state = "COMPLETE"
  IN IF s.auto_RTL /\ ~auto_rtl_active
     THEN Call([s EXCEPT !.auto_RTL = FALSE], "log:AUTO_RTL_EXIT")
     ELSE s

\* run with the sub-controller tick ahead of the mission step
run_tick_first(s, in) == run_auto_rtl(run_mission(tick(s, in.t), in), in)

\* ModeAuto::run
run(s, in) == run_auto_rtl(tick(run_mission(s, in), in.t), in)


\* ------------------------------------------------------------- Auto RTL
\* Copter::set_mode(Mode::Number::AUTO): the new mode's init() runs first and, when
\* it succeeds, the old mode's exit(); the old mode is Auto itself when the vehicle
\* is in the AUTO_RTL pseudo mode
set_mode_auto(s, ignore_checks, i) ==
  LET r == init(Call(s, "set_mode:AUTO"), ignore_checks, i)
  IN IF r.ret
     THEN [(IF s.flightmode = "AUTO" THEN exit(r) ELSE r) EXCEPT !.flightmode = "AUTO"]
     ELSE r

\* enter_auto_rtl raising the flag before it tries the mode change
enter_auto_rtl_flag_first(s, ignore_checks, i) ==
  LET s0 == [s EXCEPT !.mission.force_resume = TRUE]
      r == IF s0.flightmode = "AUTO" THEN Ret(s0, TRUE) ELSE set_mode_auto(s0, ignore_checks, i)
  IN IF r.ret
     THEN Ret(Call([r EXCEPT !.auto_RTL = TRUE], "notify:user_mode_change"), TRUE)
     ELSE Ret(Call(Call([r EXCEPT !.auto_RTL = TRUE, !.mission.force_resume = FALSE],
                        "LOG_ERROR:AUTO_RTL"), "notify:user_mode_change_failed"), FALSE)

\* ModeAuto::enter_auto_rtl
enter_auto_rtl(s, ignore_checks, i) ==
  LET s0 == [s EXCEPT !.mission.force_resume = TRUE]
      r == IF s0.flightmode = "AUTO" THEN Ret(s0, TRUE) ELSE set_mode_auto(s0, ignore_checks, i)
  IN IF r.ret
     THEN Ret(Call([r EXCEPT !.auto_RTL = TRUE], "notify:user_mode_change"), TRUE)
     ELSE Ret(Call(Call([r EXCEPT !.mission.force_resume = FALSE],
                        "LOG_ERROR:AUTO_RTL"), "notify:user_mode_change_failed"), FALSE)

\* ModeAuto::jump_to_landing_sequence_auto_RTL and ModeAuto::return_path_start_auto_RTL;
\* found is the result of the mission library's jump
jump_to_landing_sequence_auto_RTL(s, found, ignore_checks, i) ==
  IF ~found
  THEN Ret(Call(Call(Call(s, "LOG_ERROR:AUTO_RTL"), "notify:user_mode_change_failed"),
                "gcs:Mode change to AUTO RTL failed"), FALSE)
  ELSE enter_auto_rtl(s, ignore_checks, i)

\* ------------------------------------------------------- input domains
\* records over the fields of d that take every truth value on the fields F
Vary(d, F) ==
  {[f \in DOMAIN d |-> IF f \in F THEN b[f] ELSE d[f]] : b \in [F -> BOOLEAN]}

WpIds == {"NAV_WAYPOINT", "NAV_SPLINE_WAYPOINT", "NAV_LOITER_UNLIM", "NAV_LOITER_TIME",
          "NAV_LOITER_TO_ALT"}

\* the answers the start handler of cmd reads in controller state s
StartFields(s, cmd) ==
  (IF s._mode = "NAV_ATTITUDE_TIME" THEN {"ekf_bad"} ELSE {})
  \cup (IF cmd.id \in WpIds \cup {"NAV_LAND", "NAV_VTOL_LAND"} /\ s.auto_yaw = "FIXED"
        THEN {"wp_yaw_none"} ELSE {})
  \cup (CASE cmd.id \in {"NAV_TAKEOFF", "NAV_VTOL_TAKEOFF"} -> {"loc_init", "terrain_alt", "alt_ok"}
          [] cmd.id \in {"NAV_WAYPOINT", "NAV_SPLINE_WAYPOINT"} ->
               IF cmd.p1 = 0 THEN {"set_dest_ok", "next_ok"} ELSE {"set_dest_ok"}
          [] cmd.id \in {"NAV_LAND", "NAV_VTOL_LAND", "NAV_PAYLOAD_PLACE"} ->
               IF cmd.loc THEN {"shift_ok", "set_dest_ok"} ELSE {}
          [] cmd.id \in {"NAV_LOITER_UNLIM", "NAV_LOITER_TIME"} -> {"set_dest_ok"}
          [] cmd.id = "NAV_LOITER_TO_ALT" -> {"set_dest_ok", "alt_ok"}
          [] cmd.id = "NAV_LOITER_TURNS" -> {"far", "set_dest_ok", "outside"}
          [] cmd.id = "NAV_RETURN_TO_LAUNCH" -> {"rtl_ok"}
          [] cmd.id = "NAV_GUIDED_ENABLE" -> IF cmd.p1 > 0 THEN {"guided_ok"} ELSE {}
          [] cmd.id = "NAV_SCRIPT_TIME" -> {"guided_ok"}
          [] cmd.id \in {"DO_SET_ROI", "DO_SET_ROI_LOCATION"} ->
               IF cmd.loc THEN {"pan"} ELSE {}
          [] cmd.id = "DO_MOUNT_CONTROL" -> {"mount", "pan"}
          [] OTHER -> {})

StartEnvs(s, cmd) == Vary(DefaultEnv, StartFields(s, cmd))

\* the answers the verify handler of cmd reads in controller state s
VerifyFields(s, cmd) ==
  CASE cmd.id \in {"NAV_WAYPOINT", "NAV_SPLINE_WAYPOINT", "NAV_LOITER_TIME"} -> {"reached", "done"}
    [] cmd.id \in {"NAV_LAND", "NAV_VTOL_LAND"} ->
         IF s.state = "FlyToLocation"
         THEN {"reached"} \cup (IF s._mode = "NAV_ATTITUDE_TIME" THEN {"ekf_bad"} ELSE {})
         ELSE {"landed", "continue", "armed"}
    [] cmd.id = "NAV_LOITER_TURNS" ->
         IF s._mode = "CIRCLE_MOVE_TO_EDGE" THEN {"reached"} ELSE {"done"}
    [] cmd.id \in {"NAV_LOITER_UNLIM", "DO_CHANGE_SPEED", "DO_SET_HOME", "DO_SET_ROI_LOCATION",
                   "DO_SET_ROI_NONE", "DO_SET_ROI", "DO_MOUNT_CONTROL", "DO_GUIDED_LIMITS",
                   "DO_FENCE_ENABLE", "DO_WINCH", "DO_RETURN_PATH_START", "DO_LAND_START",
                   "UNKNOWN", "NONE"} -> {}
    [] OTHER -> {"done"}

VerifyEnvs(s, cmd) == Vary(DefaultVenv, VerifyFields(s, cmd))

\* the readings the tick of submode m depends on
TickFields(m) ==
  CASE m \in {"WP", "CIRCLE_MOVE_TO_EDGE", "LAND", "LOITER", "NAV_PAYLOAD_PLACE", "CIRCLE"} -> {"dol"}
    [] m = "LOITER_TO_ALT" -> {"dol", "interlock", "reached_xy"}
    [] m = "NAV_ATTITUDE_TIME" -> {"dol", "interlock"}
    [] OTHER -> {}

TickInputs(m) == Vary(DefaultTick, TickFields(m))

DefaultInit ==
  [present |-> TRUE, armed |-> FALSE, land_complete |-> TRUE, starts_with_takeoff |-> TRUE]

InitInputs == Vary(DefaultInit, DOMAIN DefaultInit)

DefaultExit == [land_complete |-> FALSE, position_ok |-> TRUE]

DefaultAdvance == [next |-> NoCmd, env |-> DefaultEnv]

\* the commands a mission step may start in controller state s, with the answers
\* their handlers may get
Advances(s) ==
  {[next |-> NoCmd, env |-> DefaultEnv]}
  \cup UNION {{[next |-> c, env |-> e] : e \in StartEnvs(s, c)} : c \in s.mission.items}

\* the readings exit_mission may get
ExitInputs == Vary(DefaultExit, DOMAIN DefaultExit)

DefaultRun ==
  [origin |-> TRUE, changed |-> FALSE, restart_ok |-> FALSE, renv |-> DefaultEnv,
   v |-> DefaultVenv, a |-> DefaultAdvance, x |-> DefaultExit, t |-> DefaultTick,
   rtl_flags |-> FALSE]


\* base completed by every mission step possible in controller state s
AdvanceInputs(s, base) ==
  UNION {{[base EXCEPT !.a = a, !.x = x] :
            x \in (IF a.next = NoCmd THEN ExitInputs ELSE {DefaultExit})} :
         a \in Advances(s)}

\* base completed by every poll of the current command and the step that follows it
UpdateInputs(s, base) ==
  IF s.mission.state # "RUNNING"
  THEN {base}
  ELSE IF s.mission.nav_cmd = NoCmd
       THEN AdvanceInputs(s, base)
       ELSE UNION {LET r == verify_command(s, s.mission.nav_cmd, v)
                       b == [base EXCEPT !.v = v]
                   IN IF r.ret THEN AdvanceInputs(r, b) ELSE {b} :
                   v \in VerifyEnvs(s, s.mission.nav_cmd)}

\* the inputs of the mission start/update step of run() that matter in state s
MissionInputs(s) ==
  IF s.waiting_to_start
  THEN {[DefaultRun EXCEPT !.origin = FALSE]} \cup AdvanceInputs(s, DefaultRun)
  ELSE UpdateInputs(s, DefaultRun)
       \cup (IF s.mission.state = "RUNNING" /\ s._mode = "WP"
             THEN LET b == [DefaultRun EXCEPT !.changed = TRUE]
                  IN UpdateInputs(restart_current_nav_cmd(s, FALSE, DefaultEnv), b)
                     \cup UNION {UpdateInputs(restart_current_nav_cmd(s, TRUE, e),
                                              [b EXCEPT !.restart_ok = TRUE, !.renv = e]) :
                                 e \in StartEnvs(s, s.mission.nav_cmd)}
             ELSE {})

\* the inputs of run() that matter in state s
RunInputs(s) ==
  UNION {LET r == run_mission(s, m)
         IN {[m EXCEPT !.t = t, !.rtl_flags = f] :
               t \in TickInputs(r._mode),
               f \in (IF r.auto_RTL THEN BOOLEAN ELSE {FALSE})} :
         m \in MissionInputs(s)}

\* ----------------------------------------------------------- transitions
\* the record of the last operation: its name, result and the inputs the
\* properties speak about (ignore_checks, mission.present(), the "armed on the
\* ground with no takeoff command" test of init, the origin test of run and
\* is_disarmed_or_landed() at the tick)
\* and, for init and set_submode, the submode and yaw mode it found
Last(op, ret, ignore_checks, i, in) ==
  [op |-> op, ret |-> ret, ignore_checks |-> ignore_checks, present |-> i.present,
   grounded |-> (i.armed /\ i.land_complete /\ ~i.starts_with_takeoff),
   origin |-> in.origin, dol |-> in.t.dol, id |-> "NONE", target |-> "NONE",
   pre_mode |-> IF op \in {"init", "set_submode"} THEN _mode ELSE "NONE",
   pre_yaw |-> IF op = "init" THEN auto_yaw ELSE "NONE"]

\* the controller after an operation
CommitCtl(r) ==
  /\ flightmode' = r.flightmode
  /\ _mode' = r._mode
  /\ waiting_to_start' = r.waiting_to_start
  /\ auto_RTL' = r.auto_RTL
  /\ desired_speed_override' = r.desired_speed_override
  /\ auto_yaw' = r.auto_yaw
  /\ guided_limits' = r.guided_limits
  /\ state' = r.state
  /\ mission' = r.mission
  /\ session_starts' = r.session_starts
  /\ log' = r.log

\* the controller after a mission-level operation, which leaves the
\* sub-controllers' state to their own specifications
Commit(r) == CommitCtl(r) /\ UNCHANGED sub

\* the controller as constructed, before a mission of ms is flown
InitCtl(ms) ==
  /\ flightmode = "OTHER"
  /\ _mode = "TAKEOFF"
  /\ waiting_to_start = FALSE
  /\ auto_RTL = FALSE
  /\ desired_speed_override = NoSpeed
  /\ auto_yaw = "DEFAULT"
  /\ guided_limits = FALSE
  /\ state = "FlyToLocation"
  /\ mission \in {[state |-> "STOPPED", nav_cmd |-> NoCmd, force_resume |-> FALSE,
                  items |-> m] : m \in ms}
  /\ session_starts = 0
  /\ rechecks = 0
  /\ last = [Last("boot", FALSE, FALSE, DefaultInit, DefaultRun) EXCEPT !.origin = FALSE]
  /\ log = <<>>

InitAuto == InitCtl(Missions)

\* no function application in progress
NoCall == [op |-> "none"]

\* the zero-initialised struct loiter_to_alt
NoLoiterToAlt ==
  [reached_destination_xy |-> FALSE, loiter_start_done |-> FALSE, reached_alt |-> FALSE,
   alt_error_cm |-> 0, alt |-> 0]

\* the PayloadPlace object as constructed
NoPayloadPlace ==
  [state |-> "FlyToLocation", descent_established_time_ms |-> 0,
   descent_start_altitude_cm |-> 0, descent_thrust_level |-> 0,
   place_start_time_ms |-> 0, descent_max_cm |-> 0]

\* the sub-controllers' state as constructed
InitStructs ==
  /\ loiter_to_alt = NoLoiterToAlt
  /\ payload_place = NoPayloadPlace
  /\ circle_last_num_complete = 0
  /\ nav_scripting = [done |-> FALSE, id |-> 0]
  /\ loiter_time = 0
  /\ loiter_time_max = 0

InitSub == call = NoCall /\ InitStructs

Init == InitAuto /\ InitSub

\* the pilot, the ground station or a failsafe asks for the Auto flight mode
SetModeAuto ==
  /\ flightmode # "AUTO" \/ auto_RTL
  /\ \E ignore_checks \in BOOLEAN, i \in InitInputs :
       LET r == set_mode_auto(S, ignore_checks, i)
       IN /\ Commit(r)
          /\ last' = Last("init", r.ret, ignore_checks, i, DefaultRun)
  /\ UNCHANGED rechecks

\* the flight mode changes from Auto to another mode
SetModeOther ==
  /\ flightmode = "AUTO"
  /\ LET r == set_mode_other(S, "set_mode:OTHER")
     IN /\ Commit(r)
        /\ last' = Last("exit", TRUE, FALSE, DefaultInit, DefaultRun)
  /\ UNCHANGED rechecks

\* the scheduler calls the active flight mode's run()
Run ==
  /\ flightmode = "AUTO"
  /\ session_starts < MaxStarts
  /\ \E in \in RunInputs(S) :
       LET r == run(S, in)
       IN /\ Commit(r)
          /\ last' = Last("run", FALSE, FALSE, DefaultInit, in)
  /\ UNCHANGED rechecks

\* the AUTO_RTL pseudo mode is asked for
AutoRTL ==
  /\ ~(flightmode = "AUTO" /\ auto_RTL)
  /\ \E found \in BOOLEAN :
     \E ignore_checks \in (IF found /\ flightmode # "AUTO" THEN BOOLEAN ELSE {FALSE}) :
     \E i \in (IF found /\ flightmode # "AUTO" THEN InitInputs ELSE {DefaultInit}) :
       LET r == jump_to_landing_sequence_auto_RTL(S, found, ignore_checks, i)
       IN /\ Commit(r)
          /\ last' = Last("auto_rtl", r.ret, ignore_checks, i, DefaultRun)
  /\ UNCHANGED rechecks

\* the mission library polls a command after the flight mode has left Auto
StaleVerify ==
  /\ flightmode # "AUTO"
  /\ \E cmd \in mission.items : \E v \in VerifyEnvs(S, cmd) :
       LET r == verify_command(S, cmd, v)
       IN /\ Commit(r)
          /\ last' = [Last("verify_command", r.ret, FALSE, DefaultInit, DefaultRun)
                         EXCEPT !.id = cmd.id]
  /\ UNCHANGED rechecks

Next == SetModeAuto \/ SetModeOther \/ Run \/ AutoRTL \/ StaleVerify

Spec == Init /\ [][Next]_vars

\* ------------------------------------------------ submode specification
\* A handler calls set_submode; ekf_bad is what the EKF failsafe re-check finds.
SetSubmode ==
  /\ flightmode = "AUTO"
  /\ rechecks < MaxRechecks
  /\ \E new_submode \in SubModes, ekf_bad \in BOOLEAN :
       LET r == set_submode(S, new_submode, [DefaultEnv EXCEPT !.ekf_bad = ekf_bad])
       IN /\ Commit(r)
          /\ rechecks' = rechecks + Count(r.log, "failsafe_ekf_recheck")
          /\ last' = [Last("set_submode", FALSE, FALSE, DefaultInit, DefaultRun)
                         EXCEPT !.target = new_submode]

InitSubmode == Init /\ mission.items = CmdsOf("NAV_ATTITUDE_TIME")

NextSubmode == SetModeAuto \/ SetModeOther \/ SetSubmode

SpecSubmode == InitSubmode /\ [][NextSubmode]_vars

\* ------------------------------------------------------------- properties
\* the controller's own state: what init, the mission callbacks and run work on
ctl == <<_mode, waiting_to_start, auto_RTL, desired_speed_override, auto_yaw,
         guided_limits, state>>

\* the log entries that are top-level sub-controller ticks
TickNames ==
  {"tick:takeoff_run", "tick:wp_run", "tick:land_run", "tick:rtl_run", "tick:circle_run",
   "tick:nav_guided_run", "tick:loiter_run", "tick:loiter_to_alt_run",
   "tick:payload_place.run", "tick:nav_attitude_time_run"}

\* the tick each submode is documented to run
TickOf(m) ==
  CASE m = "TAKEOFF" -> "tick:takeoff_run"
    [] m \in {"WP", "CIRCLE_MOVE_TO_EDGE"} -> "tick:wp_run"
    [] m = "LAND" -> "tick:land_run"
    [] m = "RTL" -> "tick:rtl_run"
    [] m = "CIRCLE" -> "tick:circle_run"
    [] m \in {"NAVGUIDED", "NAV_SCRIPT_TIME"} -> "tick:nav_guided_run"
    [] m = "LOITER" -> "tick:loiter_run"
    [] m = "LOITER_TO_ALT" -> "tick:loiter_to_alt_run"
    [] m = "NAV_PAYLOAD_PLACE" -> "tick:payload_place.run"
    [] m = "NAV_ATTITUDE_TIME" -> "tick:nav_attitude_time_run"

\* the positions of a log that hold an entry of the set E
At(l, E) == {k \in 1..Len(l) : l[k] \in E}

MissionCalls == {"mission.start_or_resume", "mission.update", "start_command"}

\* C1: init refuses (returns false) whenever the motors are armed, the vehicle is
\* landed and the mission does not start with a takeoff, whatever ignore_checks is,
\* and then leaves the submode and the waiting_to_start flag as they were.
C1_GroundedInitRefused ==
  [][(last'.op = "init" /\ last'.grounded)
       => (~last'.ret /\ _mode' = _mode /\ waiting_to_start' = waiting_to_start)]_vars

\* C1 witness: a refused init with checks ignored, while the submode left over is
\* NAV_ATTITUDE_TIME and not the LOITER a successful init would set
C1_Witness ==
  /\ last.op = "init" /\ last.grounded /\ last.ignore_checks /\ ~last.ret
  /\ _mode = "NAV_ATTITUDE_TIME" /\ ~waiting_to_start

\* C2: with no mission present and ignore_checks false, init returns false and
\* changes nothing: submode, waiting_to_start, the speed overrides, auto_RTL, the
\* yaw mode and the guided limits are what they were before the call.
C2_NoMissionInitChangesNothing ==
  [][(last'.op = "init" /\ ~last'.present /\ ~last'.ignore_checks)
       => (~last'.ret
           /\ UNCHANGED <<_mode, waiting_to_start, desired_speed_override, auto_RTL,
                          auto_yaw, guided_limits>>)]_vars

\* C3: while waiting_to_start, a run() that finds no origin makes no call on the
\* mission and starts no command; the run() that finds the origin calls
\* start_or_resume exactly once and clears waiting_to_start; no other run() calls
\* start_or_resume, so a session sees one call at most.
C3_DeferredStart ==
  /\ [](session_starts <= 1)
  /\ [][last'.op = "run"
          => /\ (waiting_to_start /\ ~last'.origin)
                  => (At(log', MissionCalls) = {} /\ waiting_to_start')
             /\ (waiting_to_start /\ last'.origin)
                  => (Count(log', "mission.start_or_resume") = 1
                      /\ ~waiting_to_start' /\ session_starts' = 1)
             /\ ~waiting_to_start
                  => (Count(log', "mission.start_or_resume") = 0
                      /\ session_starts' = session_starts)]_vars

\* C3 witness: the run() that found the origin started the mission and a command
C3_Witness ==
  /\ last.op = "run" /\ last.origin /\ ~waiting_to_start /\ session_starts = 1
  /\ Has(log, "mission.start_or_resume") /\ Has(log, "start_command")
  /\ _mode = "NAV_ATTITUDE_TIME"

\* C4: for every submode, a run() tick made while the vehicle is disarmed or landed
\* commands safe ground handling, sends the attitude controller no thrust-vector or
\* attitude command and asks for no THROTTLE_UNLIMITED spool state.
C4_GroundedTickIsSafe ==
  (last.op = "run" /\ last.dol)
    => /\ Has(log, "make_safe_ground_handling")
       /\ ~Has(log, "input_thrust_vector_heading")
       /\ ~Has(log, "input_euler_angle_roll_pitch_yaw")
       /\ ~Has(log, "THROTTLE_UNLIMITED")

\* C5: when Auto is not the active flight mode, verify_command returns false for
\* every command id and has no effect: no message, no call, no change of state.
C5_StaleVerifyIsInert ==
  [][(last'.op = "verify_command" /\ flightmode # "AUTO")
       => (~last'.ret /\ log' = <<>>
           /\ UNCHANGED <<flightmode, ctl, mission, session_starts>>)]_vars

\* C5 witness: a condition-yaw command, whose poll would fix the yaw mode and may
\* report completion, polled after the flight mode left Auto
C5_Witness ==
  /\ last.op = "verify_command" /\ last.id = "CONDITION_YAW" /\ ~last.ret
  /\ flightmode = "OTHER" /\ auto_yaw # "FIXED" /\ log = <<>>

\* C6: start_command returns false exactly for the ids it has no case for; for the
\* others it returns true whatever the handler met; an id without a case changes
\* nothing.
C6_StartCommandResult ==
  \A cmd \in mission.items : \A e \in StartEnvs(S, cmd) :
    LET r == start_command(S, cmd, e)
    IN /\ r.ret <=> (cmd.id \in StartIds)
       /\ cmd.id \notin StartIds => [r EXCEPT !.log = <<>>] = S

\* C6 witness: a waypoint command whose handler failed (terrain failsafe event) is
\* the mission's current command all the same
C6_Witness ==
  /\ last.op = "run" /\ Has(log, "start_command") /\ Has(log, "failsafe_terrain_on_event")
  /\ mission.nav_cmd.id = "NAV_WAYPOINT" /\ _mode = "NAV_ATTITUDE_TIME"

\* C7: set_submode(s) while the submode already is s changes nothing and makes no EKF
\* failsafe re-check, NAV_ATTITUDE_TIME included; a second set_submode(s) right after
\* the first leaves the state and the number of re-checks of the first.
C7_SetSubmodeIdempotent ==
  /\ [](\A m \in SubModes, b \in BOOLEAN :
          LET e == [DefaultEnv EXCEPT !.ekf_bad = b]
              r1 == set_submode(S, m, e)
              r2 == set_submode(r1, m, e)
          IN r2 = r1 /\ (m = _mode => r1 = S))
  /\ [][(last'.op = "set_submode" /\ last'.target = _mode)
          => (log' = <<>> /\ rechecks' = rechecks
              /\ UNCHANGED <<flightmode, ctl, mission>>)]_vars

\* C7 witness: set_submode(NAV_ATTITUDE_TIME) called in NAV_ATTITUDE_TIME, after
\* earlier changes away from it had made re-checks
C7_Witness ==
  /\ last.op = "set_submode" /\ last.target = "NAV_ATTITUDE_TIME"
  /\ last.pre_mode = "NAV_ATTITUDE_TIME" /\ _mode = "NAV_ATTITUDE_TIME"
  /\ rechecks = 2 /\ log = <<>>

\* C8: every change of the submode from NAV_ATTITUDE_TIME to another submode makes
\* an EKF failsafe re-check, whichever operation changes it.
C8_LeavingAttitudeTimeRechecks ==
  [][(_mode = "NAV_ATTITUDE_TIME" /\ _mode' # "NAV_ATTITUDE_TIME")
       => Has(log', "failsafe_ekf_recheck")]_vars

\* C9: a run() makes exactly one top-level tick, after every call on the mission,
\* and it is the tick of the submode the mission step of this run() left.
C9_OneTickAfterMissionStep ==
  last.op = "run"
    => /\ \E k \in 1..Len(log) : At(log, TickNames) = {k} /\ log[k] = TickOf(_mode)
       /\ \A j \in At(log, MissionCalls) : \A k \in At(log, TickNames) : j < k

\* C9 witness: the command started in this run() entered CIRCLE and circle_run ticked
C9_Witness ==
  /\ last.op = "run" /\ Has(log, "start_command") /\ _mode = "CIRCLE"
  /\ Has(log, "tick:circle_run")

\* C10: after a successful init the submode is LOITER, a carried-over ROI yaw mode
\* is HOLD and any other yaw mode is kept, the three speed overrides are 0,
\* waiting_to_start is set, auto_RTL is false and the guided limits are cleared.
C10_SuccessfulInitResets ==
  [][(last'.op = "init" /\ last'.ret)
       => /\ _mode' = "LOITER"
          /\ auto_yaw' = (IF auto_yaw = "ROI" THEN "HOLD" ELSE auto_yaw)
          /\ desired_speed_override' = [xy |-> 0, up |-> 0, down |-> 0]
          /\ waiting_to_start'
          /\ ~auto_RTL'
          /\ ~guided_limits']_vars

\* C10 witness: a successful init that found the ROI yaw mode and another submode
C10_Witness ==
  /\ last.op = "init" /\ last.ret /\ last.pre_yaw = "ROI" /\ last.pre_mode = "NAV_ATTITUDE_TIME"
  /\ auto_yaw = "HOLD" /\ _mode = "LOITER" /\ waiting_to_start

\* a start of cmd in which the handler sets a destination and the waypoint
\* controller refuses it (missing terrain data)
DestinationFails(cmd, e) ==
  /\ ~e.set_dest_ok
  /\ \/ cmd.id \in {"NAV_WAYPOINT", "NAV_SPLINE_WAYPOINT", "NAV_LOITER_UNLIM",
                    "NAV_LOITER_TIME", "NAV_LOITER_TO_ALT"}
     \/ cmd.id \in {"NAV_LAND", "NAV_VTOL_LAND", "NAV_PAYLOAD_PLACE"} /\ cmd.loc
     \/ cmd.id = "NAV_LOITER_TURNS" /\ e.far

\* C11: every start handler that sets a destination, when the destination is
\* refused for lack of terrain data, raises the terrain failsafe event and leaves
\* the submode it found: the new submode is not entered.
C11_RefusedDestinationKeepsSubmode ==
  \A cmd \in mission.items : \A e \in StartEnvs(S, cmd) :
    (flightmode = "AUTO" /\ mission.state = "RUNNING" /\ DestinationFails(cmd, e))
      => LET r == start_command(S, cmd, e)
         IN Has(r.log, "failsafe_terrain_on_event") /\ r._mode = _mode

\* a start of cmd in which the handler cannot resolve a terrain-relative altitude:
\* takeoff_start's get_alt_cm fails, or shift_alt_to_current_alt fails in do_land
\* or do_payload_place
AltitudeUnresolved(cmd, e) ==
  \/ cmd.id \in {"NAV_TAKEOFF", "NAV_VTOL_TAKEOFF"} /\ e.loc_init /\ ~e.terrain_alt /\ ~e.alt_ok
  \/ cmd.id \in {"NAV_LAND", "NAV_VTOL_LAND", "NAV_PAYLOAD_PLACE"} /\ cmd.loc /\ ~e.shift_ok

\* C12: a start handler that cannot resolve a terrain-relative altitude logs the
\* missing-terrain condition and raises the terrain failsafe event, and when the
\* destination is then accepted the command starts.
C12_UnresolvedAltitudeLogsAndRaises ==
  \A cmd \in mission.items : \A e \in StartEnvs(S, cmd) :
    (flightmode = "AUTO" /\ mission.state = "RUNNING" /\ AltitudeUnresolved(cmd, e))
      => LET r == start_command(S, cmd, e)
         IN /\ Has(r.log, "LOG_ERROR:MISSING_TERRAIN_DATA")
            /\ Has(r.log, "failsafe_terrain_on_event")
            /\ e.set_dest_ok => r.ret

\* C13: a run() that is not waiting to start, when the change detector reports a
\* change with the submode WP and the mission running, attempts one restart of the
\* current command and sends one text, "restarted command" if the restart
\* succeeded and "failed to restart command" if not; otherwise it attempts no
\* restart and sends neither text; either way it calls mission.update() once and
\* runs one sub-controller tick.
C13_RestartOnMissionChange ==
  (flightmode = "AUTO" /\ ~waiting_to_start)
    => \A in \in RunInputs(S) : \A changed \in BOOLEAN :
         LET r == run(S, [in EXCEPT !.changed = changed])
             restarts == Count(r.log, "mission.restart_current_nav_cmd")
             done == Count(r.log, "gcs:Auto mission changed, restarted command")
             failed == Count(r.log, "gcs:Auto mission changed but failed to restart command")
         IN /\ IF changed /\ _mode = "WP" /\ mission.state = "RUNNING"
               THEN /\ restarts = 1
                    /\ done + failed = 1
                    /\ done = 1 <=> (in.restart_ok /\ mission.nav_cmd # NoCmd)
               ELSE restarts = 0 /\ done = 0 /\ failed = 0
            /\ Count(r.log, "mission.update") = 1
            /\ Cardinality(At(r.log, TickNames)) = 1

\* C13 witness: a run() whose restart of the current command failed, followed by
\* the mission update and the waypoint tick
C13_Witness ==
  /\ last.op = "run"
  /\ Has(log, "mission.restart_current_nav_cmd")
  /\ Has(log, "gcs:Auto mission changed but failed to restart command")
  /\ ~Has(log, "gcs:Auto mission changed, restarted command")
  /\ Has(log, "mission.update") /\ Has(log, "tick:wp_run")

\* =========================================================== loc_from_cmd
\* the mission-level variables, idle while a helper or sub-controller is examined
main == <<flightmode, _mode, waiting_to_start, auto_RTL, desired_speed_override,
          auto_yaw, guided_limits, state, mission, session_starts, rechecks, last, log>>

\* the controller as constructed, with a mission of attitude-time commands
Idle == InitAuto /\ mission.items = CmdsOf("NAV_ATTITUDE_TIME")

AltFrames == {"ABSOLUTE", "ABOVE_HOME", "ABOVE_ORIGIN", "ABOVE_TERRAIN"}

\* Location::get_alt_cm succeeds: same frame, or terrain data there when a frame
\* is ABOVE_TERRAIN.  w holds the altitudes of home, the EKF origin and the terrain
\* above sea level, and whether the terrain database answers.
get_alt_ok(loc, frame, w) ==
  \/ loc.frame = frame
  \/ ("ABOVE_TERRAIN" \in {loc.frame, frame}) => w.terrain_ok

\* what a frame's zero is above sea level
FrameBase(frame, w) ==
  CASE frame = "ABSOLUTE" -> 0
    [] frame = "ABOVE_HOME" -> w.home_alt
    [] frame = "ABOVE_ORIGIN" -> w.origin_alt
    [] frame = "ABOVE_TERRAIN" -> w.terrain_height

\* Location::get_alt_cm: the altitude of loc expressed in frame
get_alt_cm(loc, frame, w) ==
  IF loc.frame = frame
  THEN loc.alt
  ELSE loc.alt + FrameBase(loc.frame, w) - FrameBase(frame, w)

\* loc_from_cmd with latitude and longitude each replaced on its own
loc_from_cmd_per_field(cmd, default_loc, w) ==
  LET ret == cmd
      r1 == [ret EXCEPT !.lat = IF ret.lat = 0 THEN default_loc.lat ELSE @,
                        !.lng = IF ret.lng = 0 THEN default_loc.lng ELSE @]
  IN IF r1.alt = 0
     THEN IF get_alt_ok(default_loc, r1.frame, w)
          THEN [r1 EXCEPT !.alt = get_alt_cm(default_loc, r1.frame, w)]
          ELSE [r1 EXCEPT !.alt = default_loc.alt, !.frame = default_loc.frame]
     ELSE r1

\* ModeAuto::loc_from_cmd; cmd is the command's content.location
loc_from_cmd(cmd, default_loc, w) ==
  LET ret == cmd
      r1 == IF ret.lat = 0 /\ ret.lng = 0
            THEN [ret EXCEPT !.lat = default_loc.lat, !.lng = default_loc.lng]
            ELSE ret
  IN IF r1.alt = 0
     THEN IF get_alt_ok(default_loc, r1.frame, w)
          THEN [r1 EXCEPT !.alt = get_alt_cm(default_loc, r1.frame, w)]
          ELSE [r1 EXCEPT !.alt = default_loc.alt, !.frame = default_loc.frame]
     ELSE r1

\* command locations: each field zero (not given) or given
CmdLocs == [lat : {0, 5}, lng : {0, 7}, alt : {0, 500}, frame : AltFrames]

\* default locations, as the current location or the previous destination are
DefaultLocs == [lat : {10}, lng : {20}, alt : {300}, frame : AltFrames]

Worlds == [home_alt : {100}, origin_alt : {90}, terrain_height : {40}, terrain_ok : BOOLEAN]

InitLoc ==
  /\ Idle
  /\ InitStructs
  /\ call \in [op : {"none"}, in : [cmd : CmdLocs, default_loc : DefaultLocs, w : Worlds]]

\* a start handler resolves its command's location
LocFromCmd ==
  /\ call.op = "none"
  /\ call' = [op |-> "loc_from_cmd", in |-> call.in,
               out |-> loc_from_cmd(call.in.cmd, call.in.default_loc, call.in.w)]
  /\ UNCHANGED <<dwell, main, loiter_to_alt, payload_place, circle_last_num_complete,
                 nav_scripting>>

SpecLoc == InitLoc /\ [][LocFromCmd]_vars

\* C14 as stated: every zero field is replaced by the default's on its own, a zero
\* latitude by the default latitude and a zero longitude by the default longitude
\* whatever the other fields are, a zero altitude by the default's altitude, and
\* the fields given are kept.
C14_EachFieldOnItsOwn ==
  call.op = "loc_from_cmd"
    => LET cmd == call.in.cmd
           d == call.in.default_loc
           out == call.out
       IN /\ out.lat = (IF cmd.lat = 0 THEN d.lat ELSE cmd.lat)
          /\ out.lng = (IF cmd.lng = 0 THEN d.lng ELSE cmd.lng)
          /\ cmd.alt # 0 => out.alt = cmd.alt
          /\ cmd.alt = 0 => out.alt \in {d.alt, get_alt_cm(d, cmd.frame, call.in.w)}

\* C14 amended: latitude and longitude are taken from the default together, and
\* only when both are zero; a zero altitude is replaced by the default's altitude
\* expressed in the command's frame, or by the default's altitude and frame when
\* that conversion fails; an altitude given is kept with its frame.
C14_LatLngTogetherAltOnItsOwn ==
  call.op = "loc_from_cmd"
    => LET cmd == call.in.cmd
           d == call.in.default_loc
           w == call.in.w
           out == call.out
       IN /\ <<out.lat, out.lng>> = (IF cmd.lat = 0 /\ cmd.lng = 0
                                      THEN <<d.lat, d.lng>>
                                      ELSE <<cmd.lat, cmd.lng>>)
          /\ cmd.alt # 0 => out.alt = cmd.alt /\ out.frame = cmd.frame
          /\ (cmd.alt = 0 /\ get_alt_ok(d, cmd.frame, w))
               => out.frame = cmd.frame /\ out.alt = get_alt_cm(d, cmd.frame, w)
          /\ (cmd.alt = 0 /\ ~get_alt_ok(d, cmd.frame, w))
               => out.frame = d.frame /\ out.alt = d.alt

\* C14 witness: a zero latitude with a longitude given stays zero, while the
\* altitude comes from the default in another frame
C14_Witness ==
  /\ call.op = "loc_from_cmd"
  /\ call.in.cmd.lat = 0 /\ call.in.cmd.lng = 7 /\ call.in.cmd.alt = 0
  /\ call.in.cmd.frame = "ABOVE_HOME" /\ call.in.default_loc.frame = "ABSOLUTE"
  /\ call.out = [lat |-> 0, lng |-> 7, alt |-> 200, frame |-> "ABOVE_HOME"]

\* =========================================================== takeoff_start
\* Float altitudes are counted in half centimetres, so that the conversion of a
\* float to int32_t has a fraction to drop; int32_t altitudes are whole centimetres.

\* (float)i for an int32_t i
ToFloat(i) == 2 * i

\* (int32_t)f for a float f: the fraction is dropped, towards zero
ToInt32(f) == IF f >= 0 THEN f \div 2 ELSE -((-f) \div 2)

MAX(a, b) == IF a >= b THEN a ELSE b

\* the altitude computation of takeoff_start without the margin of a landed vehicle
takeoff_start_alt_no_margin(in) ==
  IF in.dest_loc.frame = "ABOVE_TERRAIN" /\ in.terrain_offset_ok
  THEN LET current_alt_cm == in.pos_z - in.terrain_offset
           alt_target_min_cm == ToInt32(current_alt_cm)
       IN [started |-> TRUE, logged |-> FALSE, current_alt_cm |-> current_alt_cm,
           alt_target_cm |-> MAX(in.dest_loc.alt, alt_target_min_cm),
           alt_target_terrain |-> TRUE]
  ELSE LET current_alt_cm == in.pos_z
           ok == get_alt_ok(in.dest_loc, "ABOVE_ORIGIN", in.w)
           alt_target_cm == IF ok
                            THEN get_alt_cm(in.dest_loc, "ABOVE_ORIGIN", in.w)
                            ELSE ToInt32(current_alt_cm + ToFloat(in.dest_loc.alt))
           alt_target_min_cm == ToInt32(current_alt_cm)
       IN [started |-> TRUE, logged |-> ~ok, current_alt_cm |-> current_alt_cm,
           alt_target_cm |-> MAX(alt_target_cm, alt_target_min_cm),
           alt_target_terrain |-> FALSE]

\* ModeAuto::takeoff_start, lines 377-416: the current altitude, and the target and
\* frame handed to auto_takeoff.start.  in holds dest_loc, the position estimate's
\* z (pos_z), the answer of wp_nav->get_terrain_offset_cm and copter.ap.land_complete
takeoff_start_alt(in) ==
  IF in.dest_loc.frame = "ABOVE_TERRAIN" /\ in.terrain_offset_ok
  THEN LET current_alt_cm == in.pos_z - in.terrain_offset
           alt_target_min_cm ==
             ToInt32(current_alt_cm + ToFloat(IF in.land_complete THEN 100 ELSE 0))
       IN [started |-> TRUE, logged |-> FALSE, current_alt_cm |-> current_alt_cm,
           alt_target_cm |-> MAX(in.dest_loc.alt, alt_target_min_cm),
           alt_target_terrain |-> TRUE]
  ELSE LET current_alt_cm == in.pos_z
           ok == get_alt_ok(in.dest_loc, "ABOVE_ORIGIN", in.w)
           alt_target_cm == IF ok
                            THEN get_alt_cm(in.dest_loc, "ABOVE_ORIGIN", in.w)
                            ELSE ToInt32(current_alt_cm + ToFloat(in.dest_loc.alt))
           alt_target_min_cm ==
             ToInt32(current_alt_cm + ToFloat(IF in.land_complete THEN 100 ELSE 0))
       IN [started |-> TRUE, logged |-> ~ok, current_alt_cm |-> current_alt_cm,
           alt_target_cm |-> MAX(alt_target_cm, alt_target_min_cm),
           alt_target_terrain |-> FALSE]

\* takeoff destinations: only the altitude and its frame are read
TakeoffLocs == [lat : {0}, lng : {0}, alt : {0, 900, 1500}, frame : AltFrames]

\* position estimates, in half centimetres: -1000.5, 0, 999.5, 1000 and 1000.5 cm
PosZ == {-2001, 0, 1999, 2000, 2001}

InitTakeoff ==
  /\ Idle
  /\ InitStructs
  /\ call \in [op : {"none"},
                in : [dest_loc : TakeoffLocs, pos_z : PosZ, loc_init : BOOLEAN,
                      terrain_offset_ok : BOOLEAN, terrain_offset : {81},
                      land_complete : BOOLEAN, w : Worlds]]

\* do_takeoff calls takeoff_start
TakeoffStart ==
  /\ call.op = "none"
  /\ call' = [op |-> "takeoff_start", in |-> call.in,
               out |-> IF call.in.loc_init
                       THEN takeoff_start_alt(call.in)
                       ELSE [started |-> FALSE]]
  /\ UNCHANGED <<dwell, main, loiter_to_alt, payload_place, circle_last_num_complete,
                 nav_scripting>>

SpecTakeoff == InitTakeoff /\ [][TakeoffStart]_vars

Abs(x) == IF x >= 0 THEN x ELSE -x

\* do_loiter_to_alt, lines 1756-1765, on the struct l: alt_ok and alt are the
\* answer of target_loc.get_alt_cm(ABOVE_HOME, loiter_to_alt.alt)
loiter_to_alt_start(l, in) ==
  IF ~in.alt_ok
  THEN [l EXCEPT !.reached_destination_xy = TRUE, !.reached_alt = TRUE]
  ELSE [l EXCEPT !.alt = in.alt, !.reached_destination_xy = FALSE,
                 !.loiter_start_done = FALSE, !.reached_alt = FALSE, !.alt_error_cm = 0]

\* the tick without the test for a change of the error's sign
loiter_to_alt_tick_no_flip(l, in) ==
  IF in.safe
  THEN l
  ELSE LET l1 == IF ~l.reached_destination_xy
                 THEN [l EXCEPT !.reached_destination_xy = in.reached_wp]
                 ELSE l
       IN IF ~l1.reached_destination_xy
          THEN l1
          ELSE LET alt_error_cm == in.current_alt - l1.alt
               IN [l1 EXCEPT !.loiter_start_done = TRUE,
                             !.reached_alt = IF Abs(alt_error_cm) < 5 THEN TRUE ELSE @,
                             !.alt_error_cm = alt_error_cm]

\* the tick testing the horizontal arrival and the altitude afresh every time
loiter_to_alt_tick_retested(l, in) ==
  IF in.safe
  THEN l
  ELSE LET l1 == [l EXCEPT !.reached_destination_xy = in.reached_wp]
       IN IF ~l1.reached_destination_xy
          THEN l1
          ELSE LET alt_error_cm == in.current_alt - l1.alt
               IN [l1 EXCEPT !.loiter_start_done = TRUE,
                             !.reached_alt = IF Abs(alt_error_cm) < 5
                                             THEN TRUE
                                             ELSE alt_error_cm * l1.alt_error_cm < 0,
                             !.alt_error_cm = alt_error_cm]

\* ModeAuto::loiter_to_alt_run, lines 1149-1181, on the struct l: safe is
\* is_disarmed_or_landed() || !motors->get_interlock(), reached_wp is
\* wp_nav->reached_wp_destination_NE(), current_alt is copter.current_loc.alt
loiter_to_alt_tick(l, in) ==
  IF in.safe
  THEN l
  ELSE LET l1 == IF ~l.reached_destination_xy
                 THEN [l EXCEPT !.reached_destination_xy = in.reached_wp]
                 ELSE l
       IN IF ~l1.reached_destination_xy
          THEN l1
          ELSE LET alt_error_cm == in.current_alt - l1.alt
               IN [l1 EXCEPT !.loiter_start_done = TRUE,
                             !.reached_alt = IF Abs(alt_error_cm) < 5
                                             THEN TRUE
                                             ELSE IF alt_error_cm * l1.alt_error_cm < 0
                                                  THEN TRUE
                                                  ELSE @,
                             !.alt_error_cm = alt_error_cm]

\* altitudes the vehicle is seen at, around the target altitude of 100 cm
CurrentAlts == {92, 95, 96, 100, 104, 105, 108}

InitLoiterToAlt == Idle /\ InitSub

\* the mission starts a loiter-to-altitude command
DoLoiterToAlt ==
  /\ \E alt_ok \in BOOLEAN :
       LET in == [alt_ok |-> alt_ok, alt |-> 100]
       IN /\ loiter_to_alt' = loiter_to_alt_start(loiter_to_alt, in)
          /\ call' = [op |-> "do_loiter_to_alt", in |-> in, pre |-> loiter_to_alt]
  /\ UNCHANGED <<dwell, main, payload_place, circle_last_num_complete, nav_scripting>>

\* run() ticks the loiter-to-altitude submode
LoiterToAltRun ==
  /\ call.op \in {"do_loiter_to_alt", "loiter_to_alt_run"}
  /\ \E safe \in BOOLEAN, reached_wp \in BOOLEAN, current_alt \in CurrentAlts :
       LET in == [safe |-> safe, reached_wp |-> reached_wp, current_alt |-> current_alt]
       IN /\ loiter_to_alt' = loiter_to_alt_tick(loiter_to_alt, in)
          /\ call' = [op |-> "loiter_to_alt_run", in |-> in, pre |-> loiter_to_alt]
  /\ UNCHANGED <<dwell, main, payload_place, circle_last_num_complete, nav_scripting>>

NextLoiterToAlt == DoLoiterToAlt \/ LoiterToAltRun

SpecLoiterToAlt == InitLoiterToAlt /\ [][NextLoiterToAlt]_vars

\* a tick that came to compare altitudes: not made safe, the destination reached
AltTick ==
  /\ call.op = "loiter_to_alt_run"
  /\ ~call.in.safe
  /\ loiter_to_alt.reached_destination_xy

\* C16: on a tick after horizontal arrival reached_alt turns true if and only if
\* the altitude error is under 5 cm in size or has the opposite, non-zero sign of
\* the error stored by the previous comparison; a stored error of 0, as left by
\* the command's start, never makes a sign change.
C16_ReachedAltOnCloseOrFlip ==
  AltTick
    => LET err == call.in.current_alt - call.pre.alt
           prev == call.pre.alt_error_cm
           flip == (err > 0 /\ prev < 0) \/ (err < 0 /\ prev > 0)
       IN /\ loiter_to_alt.alt_error_cm = err
          /\ ~call.pre.reached_alt => (loiter_to_alt.reached_alt <=> (Abs(err) < 5 \/ flip))
          /\ call.pre.reached_alt => loiter_to_alt.reached_alt
          /\ (prev = 0 /\ Abs(err) >= 5 /\ ~call.pre.reached_alt)
               => ~loiter_to_alt.reached_alt

\* C16 witness: an overshoot from 8 cm above to 8 cm below in one tick turns
\* reached_alt true
C16_Witness ==
  /\ AltTick
  /\ ~call.pre.reached_alt /\ call.pre.alt_error_cm = 8
  /\ loiter_to_alt.alt_error_cm = -8 /\ loiter_to_alt.reached_alt

\* ============================================================ payload place
\* Thrust levels are counted in hundredths (1.0 is 100) and the parameter
\* PLDP_THRUST_PLACED_FRACTION in percent.  r is [pp, log]: the PayloadPlace
\* object and the texts and calls of this tick.  in holds what the tick reads:
\*   safe        is_disarmed_or_landed()
\*   land        copter.ap.land_complete || copter.ap.land_complete_maybe
\*   gripper     "none" (not valid), "closed" or "open" (valid and released)
\*   reached_wp  wp_nav->reached_wp_destination()
\*   pos         pos_control->get_pos_desired_U_cm()
\*   descending  the desired z velocity has reached -0.95 * descent_speed_cms
\*   thrust_level attitude_control->get_throttle_in()
\*   rng         PLDP_RNG_MAX "unset", or set with the rangefinder "disabled",
\*               reading "high" (healthy and above the maximum) or "low"
\*   now_ms      AP_HAL::millis()
MIN(a, b) == IF a <= b THEN a ELSE b

Say(r, text) == [r EXCEPT !.log = Append(@, text)]

\* case State::Descent without the test of the thrust against the threshold
PayloadPlace_descent_no_thrust_test(r, in) ==
  LET pp == r.pp
  IN IF pp.descent_max_cm # 0 /\ pp.descent_start_altitude_cm - in.pos > pp.descent_max_cm
     THEN Say([r EXCEPT !.pp.state = "Ascent_Start"], "gcs:Reached maximum descent")
     ELSE IF ~in.descending
     THEN [r EXCEPT !.pp.descent_established_time_ms = in.now_ms]
     ELSE IF in.now_ms - pp.descent_established_time_ms < 2000
     THEN [r EXCEPT !.pp.descent_thrust_level = MIN(@, in.thrust_level),
                    !.pp.place_start_time_ms = in.now_ms]
     ELSE IF in.rng = "disabled"
     THEN Say([r EXCEPT !.pp.state = "Ascent_Start"],
              "gcs:PLDP_RNG_MAX set and rangefinder not enabled")
     ELSE IF in.rng = "high"
     THEN [r EXCEPT !.pp.place_start_time_ms = in.now_ms]
     ELSE IF in.now_ms - pp.place_start_time_ms > 500
     THEN Say([r EXCEPT !.pp.state = "Release"], "gcs:payload release thrust threshold")
     ELSE r

\* case State::Descent with the maximum descent distance releasing the load
PayloadPlace_descent_max_releases(r, in) ==
  LET pp == r.pp
  IN IF pp.descent_max_cm # 0 /\ pp.descent_start_altitude_cm - in.pos > pp.descent_max_cm
     THEN Say([r EXCEPT !.pp.state = "Release"], "gcs:Reached maximum descent")
     ELSE IF ~in.descending
     THEN [r EXCEPT !.pp.descent_established_time_ms = in.now_ms]
     ELSE IF in.now_ms - pp.descent_established_time_ms < 2000
     THEN [r EXCEPT !.pp.descent_thrust_level = MIN(@, in.thrust_level),
                    !.pp.place_start_time_ms = in.now_ms]
     ELSE IF in.thrust_level * 100 > in.placed_fraction * pp.descent_thrust_level
     THEN [r EXCEPT !.pp.place_start_time_ms = in.now_ms]
     ELSE IF in.rng = "disabled"
     THEN Say([r EXCEPT !.pp.state = "Ascent_Start"],
              "gcs:PLDP_RNG_MAX set and rangefinder not enabled")
     ELSE IF in.rng = "high"
     THEN [r EXCEPT !.pp.place_start_time_ms = in.now_ms]
     ELSE IF in.now_ms - pp.place_start_time_ms > 500
     THEN Say([r EXCEPT !.pp.state = "Release"], "gcs:payload release thrust threshold")
     ELSE r

\* case State::Descent with a thrust above the threshold leaving the window running
PayloadPlace_descent_window_kept(r, in) ==
  LET pp == r.pp
  IN IF pp.descent_max_cm # 0 /\ pp.descent_start_altitude_cm - in.pos > pp.descent_max_cm
     THEN Say([r EXCEPT !.pp.state = "Ascent_Start"], "gcs:Reached maximum descent")
     ELSE IF ~in.descending
     THEN [r EXCEPT !.pp.descent_established_time_ms = in.now_ms]
     ELSE IF in.now_ms - pp.descent_established_time_ms < 2000
     THEN [r EXCEPT !.pp.descent_thrust_level = MIN(@, in.thrust_level),
                    !.pp.place_start_time_ms = in.now_ms]
     ELSE IF in.thrust_level * 100 > in.placed_fraction * pp.descent_thrust_level
     THEN r
     ELSE IF in.rng = "disabled"
     THEN Say([r EXCEPT !.pp.state = "Ascent_Start"],
              "gcs:PLDP_RNG_MAX set and rangefinder not enabled")
     ELSE IF in.rng = "high"
     THEN [r EXCEPT !.pp.place_start_time_ms = in.now_ms]
     ELSE IF in.now_ms - pp.place_start_time_ms > 500
     THEN Say([r EXCEPT !.pp.state = "Release"], "gcs:payload release thrust threshold")
     ELSE r

\* PayloadPlace::run, case State::Descent (lines 1335-1383)
PayloadPlace_descent(r, in) ==
  LET pp == r.pp
  IN IF pp.descent_max_cm # 0 /\ pp.descent_start_altitude_cm - in.pos > pp.descent_max_cm
     THEN Say([r EXCEPT !.pp.state = "Ascent_Start"], "gcs:Reached maximum descent")
     ELSE IF ~in.descending
     THEN [r EXCEPT !.pp.descent_established_time_ms = in.now_ms]
     ELSE IF in.now_ms - pp.descent_established_time_ms < 2000
     THEN [r EXCEPT !.pp.descent_thrust_level = MIN(@, in.thrust_level),
                    !.pp.place_start_time_ms = in.now_ms]
     ELSE IF in.thrust_level * 100 > in.placed_fraction * pp.descent_thrust_level
     THEN [r EXCEPT !.pp.place_start_time_ms = in.now_ms]
     ELSE IF in.rng = "disabled"
     THEN Say([r EXCEPT !.pp.state = "Ascent_Start"],
              "gcs:PLDP_RNG_MAX set and rangefinder not enabled")
     ELSE IF in.rng = "high"
     THEN [r EXCEPT !.pp.place_start_time_ms = in.now_ms]
     ELSE IF in.now_ms - pp.place_start_time_ms > 500
     THEN Say([r EXCEPT !.pp.state = "Release"], "gcs:payload release thrust threshold")
     ELSE r

\* PayloadPlace::run, case State::Ascent (lines 1421-1432)
PayloadPlace_ascent(r, in) ==
  IF in.pos >= r.pp.descent_start_altitude_cm - in.stop_distance
  THEN [r EXCEPT !.pp.state = "Done"]
  ELSE r

\* PayloadPlace::run, case State::Delay (lines 1410-1419), falling through to the ascent
PayloadPlace_delay(r, in) ==
  IF in.now_ms - r.pp.place_start_time_ms < 500 + in.delay_ms
  THEN r
  ELSE PayloadPlace_ascent([r EXCEPT !.pp.state = "Ascent"], in)

\* the relaxation for a possible landing releasing the load in every state but Done
PayloadPlace_landed_any_state(r, in) ==
  IF in.land
  THEN LET r1 == Say(r, "soften_for_landing_NE")
       IN IF r1.pp.state # "Done"
          THEN Say([r1 EXCEPT !.pp.state = "Release"], "gcs:landed")
          ELSE r1
  ELSE r

\* PayloadPlace::run, the relaxation when the vehicle might be landed (lines 1270-1291)
PayloadPlace_landed(r, in) ==
  IF in.land
  THEN LET r1 == Say(r, "soften_for_landing_NE")
       IN IF r1.pp.state = "Descent"
          THEN Say([r1 EXCEPT !.pp.state = "Release"], "gcs:landed")
          ELSE r1
  ELSE r

\* the pilot's manual release sending every state before the release to Release
PayloadPlace_gripper_release_first(r, in) ==
  IF in.gripper = "open"
  THEN CASE r.pp.state \in {"FlyToLocation", "Descent_Start"} ->
              Say([r EXCEPT !.pp.descent_start_altitude_cm = in.pos, !.pp.state = "Release"],
                  "gcs:Abort: Gripper Open")
         [] r.pp.state = "Descent" ->
              Say([r EXCEPT !.pp.state = "Release"], "gcs:Manual release")
         [] OTHER -> r
  ELSE r

\* PayloadPlace::run, the pilot's manual release (lines 1295-1316)
PayloadPlace_gripper(r, in) ==
  IF in.gripper = "open"
  THEN CASE r.pp.state \in {"FlyToLocation", "Descent_Start"} ->
              Say([r EXCEPT !.pp.descent_start_altitude_cm = in.pos, !.pp.state = "Done"],
                  "gcs:Abort: Gripper Open")
         [] r.pp.state = "Descent" ->
              Say([r EXCEPT !.pp.state = "Release"], "gcs:Manual release")
         [] OTHER -> r
  ELSE r

\* PayloadPlace::run, switch (state) (lines 1319-1439)
PayloadPlace_switch(r, in) ==
  CASE r.pp.state = "FlyToLocation" ->
         IF in.reached_wp
         THEN Say([r EXCEPT !.pp.state = "Descent_Start"], "start_descent")
         ELSE r
    [] r.pp.state = "Descent_Start" ->
         PayloadPlace_descent([r EXCEPT !.pp.descent_established_time_ms = in.now_ms,
                                        !.pp.descent_start_altitude_cm = in.pos,
                                        !.pp.descent_thrust_level = 100,
                                        !.pp.state = "Descent"], in)
    [] r.pp.state = "Descent" -> PayloadPlace_descent(r, in)
    [] r.pp.state = "Release" ->
         LET r1 == Say(r, "init_U_controller_no_descent")
         IN IF in.gripper # "none"
            THEN Say(Say([r1 EXCEPT !.pp.state = "Releasing"], "gcs:Releasing the gripper"),
                     "gripper.release")
            ELSE [r1 EXCEPT !.pp.state = "Delay"]
    [] r.pp.state = "Releasing" ->
         IF in.gripper = "closed"
         THEN r
         ELSE PayloadPlace_delay([r EXCEPT !.pp.state = "Delay"], in)
    [] r.pp.state = "Delay" -> PayloadPlace_delay(r, in)
    [] r.pp.state = "Ascent_Start" -> PayloadPlace_ascent([r EXCEPT !.pp.state = "Ascent"], in)
    [] r.pp.state = "Ascent" -> PayloadPlace_ascent(r, in)
    [] OTHER -> r

\* PayloadPlace::run, the control outputs of the state reached (lines 1441-1466)
PayloadPlace_control(r) ==
  CASE r.pp.state = "FlyToLocation" -> Say(r, "wp_run")
    [] r.pp.state \in {"Descent_Start", "Descent"} ->
         Say(Say(r, "land_at_climb_rate:descent"), "update_U_controller")
    [] r.pp.state \in {"Release", "Releasing", "Delay", "Ascent_Start"} ->
         Say(Say(r, "land_at_climb_rate:0"), "update_U_controller")
    [] OTHER -> Say(Say(r, "input_pos_vel_accel_U:descent_start_altitude"),
                    "update_U_controller")

\* PayloadPlace::run
PayloadPlace_run(pp, in) ==
  LET r == [pp |-> pp, log |-> <<>>]
  IN IF in.safe
     THEN Say(r, "make_safe_ground_handling")
     ELSE PayloadPlace_control(
            PayloadPlace_switch(
              PayloadPlace_gripper(
                PayloadPlace_landed(Say(r, "THROTTLE_UNLIMITED"), in), in), in))

\* do_payload_place on the PayloadPlace object (lines 2030-2052); started is
\* FALSE when wp_start refused the destination and the handler returned early
PayloadPlace_start(pp, cmd, started) ==
  IF cmd.loc
  THEN IF started
       THEN [pp EXCEPT !.state = "FlyToLocation", !.descent_max_cm = cmd.p1]
       ELSE [pp EXCEPT !.state = "FlyToLocation"]
  ELSE [pp EXCEPT !.state = "Descent_Start", !.descent_max_cm = cmd.p1]

\* latest clock reading examined
MaxNowMs == 5200

DefaultPlaceTick ==
  [safe |-> FALSE, land |-> FALSE, gripper |-> "none", reached_wp |-> FALSE, pos |-> 1000,
   descending |-> TRUE, thrust_level |-> 100, rng |-> "unset", placed_fraction |-> 90,
   delay_ms |-> 1000, stop_distance |-> 50, now_ms |-> 0]

\* the readings a tick may get at time now_ms: the landing detection and the
\* gripper are read in every state, the others left at their defaults in the
\* states that do not read them
PlaceTicks(pp, now_ms) ==
  LET b == [DefaultPlaceTick EXCEPT !.now_ms = now_ms]
      descent == pp.state \in {"Descent_Start", "Descent"}
  IN {[b EXCEPT !.safe = TRUE]}
     \cup {[b EXCEPT !.land = land, !.gripper = gripper, !.reached_wp = reached_wp,
                     !.pos = pos, !.descending = descending, !.thrust_level = thrust_level,
                     !.rng = rng] :
            land \in BOOLEAN,
            gripper \in {"none", "closed", "open"},
            reached_wp \in (IF pp.state = "FlyToLocation" THEN BOOLEAN ELSE {FALSE}),
            pos \in (IF pp.state \in {"Release", "Done"} THEN {1000} ELSE {1000, 700}),
            descending \in (IF descent THEN BOOLEAN ELSE {TRUE}),
            thrust_level \in (IF descent THEN {100, 80} ELSE {100}),
            rng \in (IF descent THEN {"unset", "disabled", "high", "low"} ELSE {"unset"})}

InitPlace == Idle /\ InitSub

\* the mission starts a payload place command
DoPayloadPlace ==
  /\ call.op = "none"
  /\ \E loc \in BOOLEAN, p1 \in {0, 200}, started \in BOOLEAN :
       /\ payload_place' = PayloadPlace_start(payload_place, [loc |-> loc, p1 |-> p1], started)
       /\ call' = [op |-> "do_payload_place", now_ms |-> 0, dropped |-> FALSE,
                    started |-> started \/ ~loc]
  /\ UNCHANGED <<dwell, main, loiter_to_alt, circle_last_num_complete, nav_scripting>>

\* run() ticks the payload place submode some time later.  call.dropped tells
\* whether, on some tick that began in the descent, the thrust was at or below the
\* placed fraction of the descent thrust level the tick left.
PayloadPlaceRun ==
  /\ call.op \in {"do_payload_place", "payload_place.run"}
  /\ call.started
  /\ \E dt \in {600, 2000} :
       /\ call.now_ms + dt <= MaxNowMs
       /\ \E in \in PlaceTicks(payload_place, call.now_ms + dt) :
            LET r == PayloadPlace_run(payload_place, in)
                descent == payload_place.state \in {"Descent_Start", "Descent"}
                low == in.thrust_level * 100 <= in.placed_fraction * r.pp.descent_thrust_level
            IN /\ payload_place' = r.pp
               /\ log' = r.log
               /\ call' = [op |-> "payload_place.run", now_ms |-> in.now_ms,
                            dropped |-> (IF payload_place.state = "Descent_Start"
                                         THEN FALSE ELSE call.dropped)
                                        \/ (~in.safe /\ descent /\ low),
                            started |-> TRUE]
  /\ UNCHANGED <<dwell, flightmode, _mode, waiting_to_start, auto_RTL, desired_speed_override,
                 auto_yaw, guided_limits, state, mission, session_starts, rechecks, last,
                 loiter_to_alt, circle_last_num_complete, nav_scripting>>

NextPlace == DoPayloadPlace \/ PayloadPlaceRun

SpecPlace == InitPlace /\ [][NextPlace]_vars

\* a tick that leaves the descent though the thrust never was at or below the
\* placed fraction of the descent thrust level
LeavesDescentAtFullThrust ==
  /\ call'.op = "payload_place.run"
  /\ payload_place.state = "Descent"
  /\ payload_place'.state # "Descent"
  /\ ~call'.dropped

\* C17 as stated: while the thrust never drops to or below the placed fraction of
\* the descent thrust, the descent is never left for Release: it is left only by
\* the abort at the maximum descent distance.
C17_OnlyMaxDescentLeavesDescent ==
  [][LeavesDescentAtFullThrust
       => /\ payload_place'.state = "Ascent_Start"
          /\ Has(log', "gcs:Reached maximum descent")]_vars

\* C17 amended: while the thrust never drops to or below the placed fraction of
\* the descent thrust, the descent is left for Release only when a landing is
\* detected or the pilot opens the gripper, and otherwise only by the abort at the
\* maximum descent distance.
C17_LandingOrManualReleaseOrMaxDescent ==
  [][LeavesDescentAtFullThrust
       => \/ /\ payload_place'.state = "Ascent_Start"
             /\ Has(log', "gcs:Reached maximum descent")
          \/ /\ Has(log', "gcs:landed") \/ Has(log', "gcs:Manual release")
             /\ ~Has(log', "gcs:payload release thrust threshold")
             /\ payload_place'.state \in {"Releasing", "Delay"}]_vars

\* C17 witness: a landing detected in the descent released the payload at full thrust
C17_Witness ==
  /\ call.op = "payload_place.run" /\ ~call.dropped
  /\ Has(log, "gcs:landed")
  /\ payload_place.state = "Delay"

\* ============================================================ circle turns
\* The angle circle_nav has accumulated is counted in eighths of a turn, negative
\* when circling counter-clockwise.

\* most turns a circle command asks for
MaxTurns == 3

\* ModeAuto::verify_circle with the turn count and its text: c holds _mode and
\* circle_last_num_complete, in the answer of reached_wp_destination(), the
\* accumulated angle and the command's turns; sent is the k of the text
\* "Mission: starting circle k/turns" when one is sent, 0 when none is
verify_circle_turns(c, in) ==
  IF c._mode = "CIRCLE_MOVE_TO_EDGE"
  THEN [_mode |-> IF in.reached THEN "CIRCLE" ELSE c._mode,
        circle_last_num_complete |-> c.circle_last_num_complete,
        sent |-> 0, ret |-> FALSE]
  ELSE LET eighths == Abs(in.angle_total)           \* num_circles_completed * 8
           whole == eighths \div 8                  \* int(num_circles_completed)
       IN [_mode |-> c._mode,
           circle_last_num_complete |->
             IF whole # c.circle_last_num_complete THEN whole ELSE c.circle_last_num_complete,
           sent |-> IF whole # c.circle_last_num_complete THEN whole + 1 ELSE 0,
           ret |-> eighths >= 8 * in.turns]

InitCircle == Idle /\ InitSub

\* the mission starts a circle command: do_circle, lines 1724-1726
DoCircle ==
  /\ call.op = "none"
  /\ \E turns \in 1..MaxTurns, far \in BOOLEAN, ccw \in BOOLEAN :
       /\ _mode' = IF far THEN "CIRCLE_MOVE_TO_EDGE" ELSE "CIRCLE"
       /\ circle_last_num_complete' = -1
       /\ call' = [op |-> "do_circle", turns |-> turns, ccw |-> ccw, angle_total |-> 0,
                    sent |-> <<>>, ret |-> FALSE]
  /\ UNCHANGED <<dwell, flightmode, waiting_to_start, auto_RTL, desired_speed_override, auto_yaw,
                 guided_limits, state, mission, session_starts, rechecks, last, log,
                 loiter_to_alt, payload_place, nav_scripting>>

\* the mission polls the circle command, the vehicle having circled on by up to a
\* three eighths of a turn since the last poll; call.sent lists the k of the texts sent so far
VerifyCircle ==
  /\ call.op \in {"do_circle", "verify_circle"}
  /\ ~call.ret
  /\ \E reached \in BOOLEAN, step \in {0, 1, 3} :
       LET angle_total == IF _mode = "CIRCLE"
                          THEN call.angle_total + (IF call.ccw THEN -step ELSE step)
                          ELSE 0
           r == verify_circle_turns(
                  [_mode |-> _mode, circle_last_num_complete |-> circle_last_num_complete],
                  [reached |-> reached, angle_total |-> angle_total, turns |-> call.turns])
       IN /\ Abs(angle_total) <= 8 * call.turns + 2
          /\ _mode' = r._mode
          /\ circle_last_num_complete' = r.circle_last_num_complete
          /\ call' = [call EXCEPT !.op = "verify_circle", !.angle_total = angle_total,
                                   !.sent = IF r.sent # 0 THEN Append(@, r.sent) ELSE @,
                                   !.ret = r.ret]
  /\ UNCHANGED <<dwell, flightmode, waiting_to_start, auto_RTL, desired_speed_override, auto_yaw,
                 guided_limits, state, mission, session_starts, rechecks, last, log,
                 loiter_to_alt, payload_place, nav_scripting>>

NextCircle == DoCircle \/ VerifyCircle

SpecCircle == InitCircle /\ [][NextCircle]_vars

\* C18: a poll of a circle command of N turns returns true only once N full turns
\* are accumulated, and over the command one "starting circle k" text is sent per
\* turn, for k = 1..N only: no k above N and no k twice, and when the command
\* completes each of 1..N has been sent.
C18_OneTextPerTurn ==
  call.op = "verify_circle"
    => /\ call.ret <=> (_mode = "CIRCLE" /\ Abs(call.angle_total) >= 8 * call.turns)
       /\ \A i \in 1..Len(call.sent) : call.sent[i] \in 1..call.turns
       /\ \A i, j \in 1..Len(call.sent) : call.sent[i] = call.sent[j] => i = j
       /\ call.ret => {call.sent[i] : i \in 1..Len(call.sent)} = 1..call.turns

\* ================================================= a mission flown in order
\* The mission library steps through Takeoff, Waypoint (no delay) and Land
\* (no coordinates), each command started when the one before it completes.
SeqTakeoff == Cmd("NAV_TAKEOFF", 0, FALSE, "AIRSPEED", 0)
SeqWaypoint == Cmd("NAV_WAYPOINT", 0, FALSE, "AIRSPEED", 0)
SeqLand == Cmd("NAV_LAND", 0, FALSE, "AIRSPEED", 0)

\* the command after cmd, NoCmd after the last
SeqNext(cmd) ==
  CASE cmd = NoCmd -> SeqTakeoff
    [] cmd = SeqTakeoff -> SeqWaypoint
    [] cmd = SeqWaypoint -> SeqLand
    [] OTHER -> NoCmd

\* verify_nav_wp's timer test, line 2246: elapsed whole seconds since arrival
\* against loiter_time_max, the command's p1
dwell_over(time_max, elapsed) == elapsed >= time_max

\* the answers a poll of cmd may get: a waypoint's dwell is over as its timer says
SeqVerifyEnvs(s, cmd) ==
  IF cmd.id = "NAV_WAYPOINT"
  THEN {[v EXCEPT !.done = dwell_over(cmd.p1, elapsed)] :
          v \in Vary(DefaultVenv, {"reached"}), elapsed \in {0, 1}}
  ELSE VerifyEnvs(s, cmd)

\* base completed by the start of the command after cmd; the mission's end after
\* the landing finds the vehicle landed, as verify_land has just read
SeqAdvance(s, base, cmd) ==
  IF SeqNext(cmd) = NoCmd
  THEN {[base EXCEPT !.x = x] : x \in Vary([DefaultExit EXCEPT !.land_complete = TRUE],
                                           {"position_ok"})}
  ELSE {[base EXCEPT !.a = [next |-> SeqNext(cmd), env |-> e]] :
          e \in StartEnvs(s, SeqNext(cmd))}

\* the inputs of run() while the mission is flown in order
SeqInputs(s) ==
  LET m == IF s.waiting_to_start
           THEN {[DefaultRun EXCEPT !.origin = FALSE]} \cup SeqAdvance(s, DefaultRun, NoCmd)
           ELSE UNION {LET r == verify_command(s, s.mission.nav_cmd, v)
                           b == [DefaultRun EXCEPT !.v = v]
                       IN IF r.ret THEN SeqAdvance(r, b, s.mission.nav_cmd) ELSE {b} :
                       v \in SeqVerifyEnvs(s, s.mission.nav_cmd)}
  IN UNION {{[i EXCEPT !.t = t] : t \in TickInputs(run_mission(s, i)._mode)} : i \in m}

InitSeq ==
  /\ InitCtl({{SeqTakeoff, SeqWaypoint, SeqLand}})
  /\ InitSub

\* the pilot selects Auto; call.visited lists the submodes entered since, and
\* call.nominal tells that the location was initialised and every destination
\* accepted in the starts made so far
SeqSetModeAuto ==
  /\ call.op = "none"
  /\ \E ignore_checks \in BOOLEAN, i \in InitInputs :
       LET r == set_mode_auto(S, ignore_checks, i)
       IN /\ CommitCtl(r)
          /\ last' = Last("init", r.ret, ignore_checks, i, DefaultRun)
          /\ call' = IF r.ret
                      THEN [op |-> "init", visited |-> <<r._mode>>, nominal |-> TRUE,
                            polled |-> NoCmd, v |-> DefaultVenv]
                      ELSE call
  /\ UNCHANGED <<dwell, rechecks, loiter_to_alt, payload_place, circle_last_num_complete,
                 nav_scripting>>

\* the scheduler calls run() until the mission completes
SeqRun ==
  /\ call.op \in {"init", "run"}
  /\ flightmode = "AUTO"
  /\ waiting_to_start \/ mission.state = "RUNNING"
  /\ \E in \in SeqInputs(S) :
       LET r == run(S, in)
           started == r.mission.nav_cmd # mission.nav_cmd /\ in.a.next # NoCmd
       IN /\ CommitCtl(r)
          /\ last' = Last("run", FALSE, FALSE, DefaultInit, in)
          /\ call' = [op |-> "run",
                       visited |-> IF r._mode # _mode THEN Append(call.visited, r._mode)
                                   ELSE call.visited,
                       nominal |-> call.nominal
                                   /\ (started => (in.a.env.loc_init /\ in.a.env.set_dest_ok)),
                       polled |-> IF waiting_to_start THEN NoCmd ELSE mission.nav_cmd,
                       v |-> in.v]
  /\ UNCHANGED <<dwell, rechecks, loiter_to_alt, payload_place, circle_last_num_complete,
                 nav_scripting>>

NextSeq == SeqSetModeAuto \/ SeqRun

SpecSeq == InitSeq /\ [][NextSeq]_vars

\* the command polled in the last run() was found complete
SeqCompleted == call.polled # NoCmd /\ mission.nav_cmd # call.polled

MaxScriptStarts == 3

\* do_nav_script_time on nav_scripting (lines 1886-1899); id is a uint16_t
nav_scripting_start(n, guided_ok) ==
  IF guided_ok
  THEN [n EXCEPT !.done = FALSE, !.id = (@ + 1) % 65536]
  ELSE [n EXCEPT !.done = TRUE]

\* nav_script_time_done accepting any id
nav_script_time_done_any_id(mode, n, id) ==
  IF mode = "NAV_SCRIPT_TIME"
  THEN [n EXCEPT !.done = TRUE]
  ELSE n

\* ModeAuto::nav_script_time_done
nav_script_time_done(mode, n, id) ==
  IF mode = "NAV_SCRIPT_TIME" /\ id = n.id
  THEN [n EXCEPT !.done = TRUE]
  ELSE n

\* the controller some commands into a flight, the id counter low or about to wrap
InitScript ==
  /\ Idle
  /\ loiter_to_alt = NoLoiterToAlt
  /\ payload_place = NoPayloadPlace
  /\ circle_last_num_complete = 0
  /\ nav_scripting \in [done : BOOLEAN, id : {0, 65534}]
  /\ loiter_time = 0
  /\ loiter_time_max = 0
  /\ call = [op |-> "boot", issued |-> <<>>, id |-> 0, pre |-> nav_scripting]

\* the mission starts a NAV_SCRIPT_TIME command; call.issued lists the ids that
\* successful starts have assigned
DoNavScriptTime ==
  /\ Len(call.issued) < MaxScriptStarts
  /\ \E guided_ok \in BOOLEAN :
       LET r == do_nav_script_time(S, Cmd("NAV_SCRIPT_TIME", 0, FALSE, "AIRSPEED", 0),
                                   [DefaultEnv EXCEPT !.guided_ok = guided_ok])
           n == nav_scripting_start(nav_scripting, guided_ok)
       IN /\ CommitCtl(r)
          /\ nav_scripting' = n
          /\ call' = [op |-> "do_nav_script_time",
                       issued |-> IF guided_ok THEN Append(call.issued, n.id) ELSE call.issued,
                       id |-> 0, pre |-> nav_scripting]
  /\ UNCHANGED <<dwell, rechecks, last, loiter_to_alt, payload_place, circle_last_num_complete>>

\* the mission starts a command of another kind, which enters its own submode
DoOtherCommand ==
  /\ \E new_submode \in {"WP", "LOITER"} :
       CommitCtl(set_submode(S, new_submode, DefaultEnv))
  /\ call' = [call EXCEPT !.op = "start_command", !.pre = nav_scripting]
  /\ UNCHANGED <<dwell, rechecks, last, loiter_to_alt, payload_place, circle_last_num_complete,
                 nav_scripting>>

\* a script reports a command done, with the id of some command started so far or
\* with an id never assigned
NavScriptTimeDone ==
  /\ \E id \in {call.issued[k] : k \in 1..Len(call.issued)}
               \cup {nav_scripting.id, (nav_scripting.id + 1) % 65536} :
       /\ nav_scripting' = nav_script_time_done(_mode, nav_scripting, id)
       /\ call' = [call EXCEPT !.op = "nav_script_time_done", !.id = id,
                                !.pre = nav_scripting]
  /\ UNCHANGED <<dwell, main, loiter_to_alt, payload_place, circle_last_num_complete>>

NextScript == DoNavScriptTime \/ DoOtherCommand \/ NavScriptTimeDone

SpecScript == InitScript /\ [][NextScript]_vars

\* the id the most recent successful do_nav_script_time assigned, -1 when none
LastIssued == IF call.issued = <<>> THEN -1 ELSE call.issued[Len(call.issued)]

C21_AutoRTLOnlyWhileActive ==
  /\ [](flightmode = "AUTO"
         => \A in \in RunInputs(S) :
              LET r == run(S, in)
              IN /\ r.auto_RTL => (in.rtl_flags \/ r.mission.state = "COMPLETE")
                 /\ r.auto_RTL => auto_RTL)
  /\ [][(~auto_RTL /\ auto_RTL') => (last'.op = "auto_rtl" /\ last'.ret)]_vars

\* C21 witness: a run() has cleared auto_RTL and logged the exit from Auto RTL
\* while the mission was running
C21_Witness ==
  /\ last.op = "run"
  /\ flightmode = "AUTO"
  /\ ~auto_RTL
  /\ Has(log, "log:AUTO_RTL_EXIT")
  /\ mission.state = "RUNNING"

\* ========================================================== deferred start
\* The AHRS origin is part of the state here: call.origin is what
\* ahrs.get_origin() answers, and once the origin is set it stays set.
InitWait ==
  /\ InitCtl({CmdsOf("NAV_WAYPOINT")})
  /\ call = [op |-> "ahrs", origin |-> FALSE]
  /\ InitStructs

\* the EKF sets its origin
OriginAcquired ==
  /\ ~call.origin
  /\ call' = [call EXCEPT !.origin = TRUE]
  /\ UNCHANGED <<dwell, main, loiter_to_alt, payload_place, circle_last_num_complete,
                 nav_scripting>>

\* the scheduler calls run() while the mission waits to start: run() reads the origin
WaitRun ==
  /\ flightmode = "AUTO"
  /\ waiting_to_start
  /\ session_starts < MaxStarts
  /\ \E in \in {[DefaultRun EXCEPT !.origin = FALSE]} \cup AdvanceInputs(S, DefaultRun) :
     \E t \in TickInputs(run_mission(S, in)._mode) :
       /\ in.origin = call.origin
       /\ LET r == run(S, [in EXCEPT !.t = t])
          IN /\ Commit(r)
             /\ last' = Last("run", FALSE, FALSE, DefaultInit, [in EXCEPT !.t = t])
  /\ UNCHANGED rechecks

\* the scheduler calls run() once the mission has been started
StartedRun == ~waiting_to_start /\ Run

NextWait == SetModeAuto \/ SetModeOther \/ OriginAcquired \/ WaitRun \/ StartedRun

\* run() is called by the scheduler as long as Auto is the flight mode, and the
\* origin is eventually set
SpecWait == InitWait /\ [][NextWait]_vars /\ WF_vars(WaitRun) /\ WF_vars(OriginAcquired)

\* the log entries that report an error
ErrorCalls ==
  {"INTERNAL_ERROR", "LOG_ERROR:MISSING_TERRAIN_DATA", "LOG_ERROR:AUTO_RTL",
   "failsafe_terrain_on_event", "gcs:Auto: Missing Takeoff Cmd"}

\* C22: while Auto stays the flight mode and run() keeps being called, a mission
\* that waits to start is eventually started or resumed by a run() that clears
\* waiting_to_start; a run() that finds no origin while waiting leaves the flight
\* mode, the waiting flag and the mission as they are and reports no error.
C22_DeferredStartHappens ==
  /\ (flightmode = "AUTO" /\ waiting_to_start)
       ~> (\/ flightmode # "AUTO"
           \/ (~waiting_to_start /\ last.op = "run" /\ Has(log, "mission.start_or_resume")))
  /\ [][(last'.op = "run" /\ waiting_to_start /\ ~call.origin)
          => /\ flightmode' = flightmode
             /\ waiting_to_start'
             /\ mission' = mission
             /\ At(log', ErrorCalls) = {}
             /\ ~Has(log', "mission.start_or_resume")]_vars

\* C22 witness: a run() found the origin set and started the mission after an
\* earlier run() had waited without one
C22_Witness ==
  /\ call.origin
  /\ flightmode = "AUTO"
  /\ ~waiting_to_start
  /\ last.op = "run"
  /\ Has(log, "mission.start_or_resume")
  /\ mission.state = "RUNNING"

\* ==================================================================== Land
\* A mission of one Land command, with or without coordinates.  call holds the
\* last poll: the command polled, the land state it found, the answers it got
\* (land_complete and the spool state apart) and verify_command's result.
InitLand ==
  /\ InitCtl({{c} : c \in CmdsOf("NAV_LAND")})
  /\ InitSub

\* verify_land, line 2103: landed is land_complete with the spool state GROUND_IDLE
LandVenvs(s) ==
  IF s.state = "Descending"
  THEN {[v |-> [w EXCEPT !.landed = lc /\ idle], land_complete |-> lc, ground_idle |-> idle] :
          w \in Vary(DefaultVenv, {"continue", "armed"}), lc \in BOOLEAN, idle \in BOOLEAN}
  ELSE {[v |-> w, land_complete |-> FALSE, ground_idle |-> FALSE] :
          w \in Vary(DefaultVenv, {"reached"})}

\* the scheduler calls run(): the mission starts the Land command or polls it, and
\* ends when the poll reports the landing complete
LandRun ==
  /\ flightmode = "AUTO"
  /\ waiting_to_start \/ mission.state = "RUNNING"
  /\ session_starts < MaxStarts
  /\ LET cmd == CHOOSE c \in mission.items : TRUE
     IN \E p \in (IF waiting_to_start THEN {CHOOSE p \in LandVenvs(S) : TRUE} ELSE LandVenvs(S)) :
        \E e \in (IF waiting_to_start THEN StartEnvs(S, cmd) ELSE {DefaultEnv}) :
        \E x \in Vary([DefaultExit EXCEPT !.land_complete = TRUE], {"position_ok"}) :
          LET q == verify_command(S, mission.nav_cmd, p.v)
              ends == ~waiting_to_start /\ q.ret
              in0 == [DefaultRun EXCEPT !.v = p.v,
                                        !.a = IF waiting_to_start
                                              THEN [next |-> cmd, env |-> e]
                                              ELSE DefaultAdvance,
                                        !.x = IF ends THEN x ELSE DefaultExit]
          IN /\ ends \/ x = [DefaultExit EXCEPT !.land_complete = TRUE]
             /\ \E t \in TickInputs(run_mission(S, in0)._mode) :
                  LET in == [in0 EXCEPT !.t = t]
                      r == run(S, in)
                  IN /\ CommitCtl(r)
                     /\ last' = Last("run", FALSE, FALSE, DefaultInit, in)
                     /\ call' = IF waiting_to_start
                                 THEN [op |-> "start"]
                                 ELSE [op |-> "verify_land", polled |-> mission.nav_cmd,
                                       state |-> state, submode |-> _mode, v |-> p.v,
                                       land_complete |-> p.land_complete,
                                       ground_idle |-> p.ground_idle, ret |-> q.ret]
  /\ UNCHANGED <<dwell, rechecks, loiter_to_alt, payload_place, circle_last_num_complete,
                 nav_scripting>>

NextLand == SetModeAuto \/ SetModeOther \/ LandRun

SpecLand == InitLand /\ [][NextLand]_vars

\* a poll of the Land command in the descending state has just been made
LandPolled == last.op = "run" /\ call.op = "verify_land" /\ call.state = "Descending"

\* the mission is still on the command the poll was made on
LandParked == mission.state = "RUNNING" /\ mission.nav_cmd = call.polled

\* C23: in the descending state with land_complete and ground idle, a
\* mission configured to stop at landing makes verify disarm (LANDED), report
\* false and stay on the Land command; otherwise verify reports true; and verify
\* never reports true unless land_complete and ground idle both hold.
C23_StopAtLandingAlwaysParks ==
  LandPolled =>
    /\ (call.land_complete /\ call.ground_idle /\ ~call.v.continue)
         => (Has(log, "disarm:LANDED") /\ ~call.ret /\ LandParked)
    /\ (call.land_complete /\ call.ground_idle /\ call.v.continue) => call.ret
    /\ call.ret => (call.land_complete /\ call.ground_idle)

\* verify_land as coded (C23): the stop at landing is taken only with the motors
\* armed.  With land_complete and ground idle, a mission configured to stop makes
\* verify disarm (LANDED), report false and stay on the Land command if the
\* motors are armed; with the motors not armed, or the mission configured to
\* continue, verify reports true and disarms nothing.
C23_StopAtLandingParksWhileArmed ==
  /\ LandPolled =>
       /\ (call.land_complete /\ call.ground_idle /\ ~call.v.continue /\ call.v.armed)
            => (Has(log, "disarm:LANDED") /\ ~call.ret /\ LandParked)
       /\ (call.land_complete /\ call.ground_idle /\ (call.v.continue \/ ~call.v.armed))
            => (call.ret /\ ~Has(log, "disarm:LANDED"))
       /\ call.ret => (call.land_complete /\ call.ground_idle)
  /\ (last.op = "run" /\ call.op = "verify_land" /\ call.state = "FlyToLocation")
       => ~call.ret

\* C23 witness: a poll that found the vehicle landed at ground idle with the motors
\* armed and the mission configured to stop has disarmed and left the mission on
\* the Land command
C23_Witness ==
  /\ LandPolled
  /\ call.land_complete /\ call.ground_idle /\ ~call.v.continue /\ call.v.armed
  /\ Has(log, "disarm:LANDED")
  /\ ~call.ret
  /\ LandParked

\* =========================================================== waypoint dwell
\* The dwell timer of a Waypoint command.  call holds the command started last,
\* whether wp_start accepted its destination, millis() (call.now), what the last
\* poll found and returned, and millis() at the first poll since the start that
\* found the waypoint reached (call.arrived, -1 before it).

\* latest millis() of the waypoint specification
MaxWpNowMs == 3000

\* the time between two calls, in milliseconds
WpSteps == {0, 500, 1000}

\* ModeAuto::do_nav_wp, the dwell timer: lines 1573-1575 are reached only when
\* wp_start accepted the destination
do_nav_wp_dwell(t, cmd, accepted) ==
  IF ~accepted
  THEN t
  ELSE [loiter_time |-> 0, loiter_time_max |-> cmd.p1]

\* ModeAuto::verify_nav_wp on the dwell timer.  millis() is a uint32_t and the
\* subtraction wraps; no time of this specification is past MaxWpNowMs, so that
\* now is never before the time the timer was started at
verify_nav_wp_dwell(t, now, reached) ==
  IF ~reached
  THEN [loiter_time |-> t.loiter_time, loiter_time_max |-> t.loiter_time_max, ret |-> FALSE]
  ELSE LET started == IF t.loiter_time = 0 THEN now ELSE t.loiter_time
           elapsed == (now - started) \div 1000
       IN [loiter_time |-> started, loiter_time_max |-> t.loiter_time_max,
           ret |-> dwell_over(t.loiter_time_max, elapsed)]

InitWp ==
  /\ Idle
  /\ InitStructs
  /\ call = [op |-> "none", now |-> 0, ret |-> FALSE]

\* the mission starts a Waypoint command
DoNavWp ==
  /\ \E cmd \in CmdsOf("NAV_WAYPOINT"), accepted \in BOOLEAN, step \in WpSteps :
       LET t == do_nav_wp_dwell([loiter_time |-> loiter_time,
                                 loiter_time_max |-> loiter_time_max], cmd, accepted)
       IN /\ call.now + step <= MaxWpNowMs
          /\ loiter_time' = t.loiter_time
          /\ loiter_time_max' = t.loiter_time_max
          /\ call' = [op |-> "do_nav_wp", cmd |-> cmd, accepted |-> accepted,
                      now |-> call.now + step, arrived |-> -1, reached |-> FALSE,
                      ret |-> FALSE]
  /\ UNCHANGED <<main, loiter_to_alt, payload_place, circle_last_num_complete,
                 nav_scripting>>

\* the mission polls the Waypoint command it started, until it is complete
VerifyNavWp ==
  /\ call.op \in {"do_nav_wp", "verify_nav_wp"}
  /\ ~call.ret
  /\ \E reached \in BOOLEAN, step \in WpSteps :
       LET now == call.now + step
           r == verify_nav_wp_dwell([loiter_time |-> loiter_time,
                                     loiter_time_max |-> loiter_time_max], now, reached)
       IN /\ now <= MaxWpNowMs
          /\ loiter_time' = r.loiter_time
          /\ loiter_time_max' = r.loiter_time_max
          /\ call' = [call EXCEPT !.op = "verify_nav_wp", !.now = now,
                                  !.reached = reached,
                                  !.arrived = IF @ = -1 /\ reached THEN now ELSE @,
                                  !.ret = r.ret]
  /\ UNCHANGED <<main, loiter_to_alt, payload_place, circle_last_num_complete,
                 nav_scripting>>

NextWp == DoNavWp \/ VerifyNavWp

SpecWp == InitWp /\ [][NextWp]_vars

\* whole seconds between the first poll that found the waypoint reached and now
SinceArrival == (call.now - call.arrived) \div 1000

\* C24: a poll of a Waypoint command with dwell D returns true only if the
\* waypoint is reached and at least D whole seconds have passed since the first
\* poll that found it reached; with D = 0 it returns true on the first such poll;
\* it returns false whenever the waypoint is not reached; and every start of a
\* Waypoint command resets the dwell timer.
C24_DwellFromFirstArrival ==
  /\ call.op = "verify_nav_wp" =>
       /\ call.ret => (call.reached /\ call.arrived # -1 /\ SinceArrival >= call.cmd.p1)
       /\ (call.reached /\ call.cmd.p1 = 0) => call.ret
       /\ ~call.reached => ~call.ret
  /\ call.op = "do_nav_wp" => (loiter_time = 0 /\ loiter_time_max = call.cmd.p1)

\* the dwell as coded (C24): the statement above holds for the commands whose
\* destination wp_start accepted
C24_DwellAfterAcceptedStart ==
  call.op \in {"do_nav_wp", "verify_nav_wp"} /\ call.accepted
    => /\ call.op = "verify_nav_wp" =>
            /\ call.ret => (call.reached /\ call.arrived # -1 /\ SinceArrival >= call.cmd.p1)
            /\ (call.reached /\ call.cmd.p1 = 0) => call.ret
            /\ ~call.reached => ~call.ret
       /\ call.op = "do_nav_wp" => (loiter_time = 0 /\ loiter_time_max = call.cmd.p1)

\* C24 witness: a Waypoint command asking for a dwell of one second, whose
\* destination was refused, is reported complete on the first poll that finds the
\* waypoint reached, on the timer and the dwell left by the command before it
C24_Witness ==
  /\ call.op = "verify_nav_wp"
  /\ ~call.accepted
  /\ call.cmd.p1 = 1
  /\ call.reached /\ call.arrived = call.now
  /\ call.ret

\* ========================================================= submode changes
\* C25: the submode changes only inside the handlers of start_command: no poll of
\* verify_command and no sub-controller tick changes it, and a step that changes
\* it has called start_command.
C25_SubmodeChangesOnlyInStartHandlers ==
  /\ []((flightmode = "AUTO" /\ mission.state = "RUNNING" /\ mission.nav_cmd # NoCmd)
          => /\ \A v \in VerifyEnvs(S, mission.nav_cmd) :
                  verify_command(S, mission.nav_cmd, v)._mode = _mode
             /\ \A t \in TickInputs(_mode) : tick(S, t)._mode = _mode)
  /\ [][_mode' # _mode => Has(log', "start_command")]_vars

\* the polls that change the submode (C25): a Land command flying to its location
\* and a circle command moving to the circle's edge enter LAND and CIRCLE on the
\* poll that finds the destination reached
C25_PollChangesSubmode ==
  /\ flightmode = "AUTO" /\ mission.state = "RUNNING"
  /\ \/ mission.nav_cmd.id = "NAV_LAND" /\ state = "FlyToLocation" /\ _mode = "WP"
     \/ mission.nav_cmd.id = "NAV_LOITER_TURNS" /\ _mode = "CIRCLE_MOVE_TO_EDGE"
  /\ \E v \in VerifyEnvs(S, mission.nav_cmd) :
       verify_command(S, mission.nav_cmd, v)._mode \in {"LAND", "CIRCLE"}

\* ============================================= failed altitude conversions
\* loc_from_cmd was asked for a command without altitude and could not express
\* the default location's altitude in the command's frame
LocConversionFailed ==
  /\ call.op = "loc_from_cmd"
  /\ call.in.cmd.alt = 0
  /\ ~get_alt_ok(call.in.default_loc, call.in.cmd.frame, call.in.w)

\* the log entries that record an error condition: a logged error, a text to the
\* ground station, the terrain failsafe event
ErrorRecords ==
  {"LOG_ERROR:MISSING_TERRAIN_DATA", "failsafe_terrain_on_event", "INTERNAL_ERROR",
   "gcs:Land: no terrain data, using alt-above-home",
   "gcs:PayloadPlace: no terrain data, using alt-above-home", "gcs:bad do_loiter_to_alt"}

\* C26: a failed altitude-frame conversion in loc_from_cmd records an error
\* condition (a logged error, a text or a terrain failsafe event) before the
\* default location's altitude and frame are substituted.
C26_FailedConversionIsRecorded ==
  LocConversionFailed => At(log, ErrorRecords) # {}

\* C26 witness: loc_from_cmd has substituted the default location's altitude and
\* frame after a failed conversion, and nothing was recorded
C26_SilentSubstitution ==
  /\ LocConversionFailed
  /\ call.out.alt = call.in.default_loc.alt
  /\ call.out.frame = call.in.default_loc.frame
  /\ call.out.frame # call.in.cmd.frame
  /\ log = <<>>

\* the start handlers that do record (C26): takeoff_start, do_land and
\* do_payload_place log the missing terrain data, do_loiter_to_alt sends a text
C26_StartHandlersRecord ==
  \A cmd \in mission.items : \A e \in StartEnvs(S, cmd) :
    (/\ flightmode = "AUTO" /\ mission.state = "RUNNING"
     /\ AltitudeUnresolved(cmd, e) \/ (cmd.id = "NAV_LOITER_TO_ALT" /\ ~e.alt_ok))
      => At(start_command(S, cmd, e).log, ErrorRecords) # {}

\* ================================================ payload place: the states
\* the position of a state in the order of PayloadPlace::State
PlaceRank(st) ==
  CASE st = "FlyToLocation" -> 0
    [] st = "Descent_Start" -> 1
    [] st = "Descent" -> 2
    [] st = "Release" -> 3
    [] st = "Releasing" -> 4
    [] st = "Delay" -> 5
    [] st = "Ascent_Start" -> 6
    [] st = "Ascent" -> 7
    [] st = "Done" -> 8

\* PayloadPlace::verify
PayloadPlace_verify(pp) ==
  CASE pp.state \in {"FlyToLocation", "Descent_Start", "Descent", "Release", "Releasing",
                     "Delay", "Ascent_Start", "Ascent"} -> FALSE
    [] pp.state = "Done" -> TRUE
    [] OTHER -> TRUE

\* C27: within one payload place command no run() tick, whatever it reads, moves
\* the state backward in the order FlyToLocation, Descent_Start, Descent, Release,
\* Releasing, Delay, Ascent_Start, Ascent, Done; Done is never left; and
\* PayloadPlace::verify returns true exactly in Done.
C27_StateOnlyAdvances ==
  /\ [][call'.op = "payload_place.run"
          => /\ PlaceRank(payload_place'.state) >= PlaceRank(payload_place.state)
             /\ payload_place.state = "Done" => payload_place'.state = "Done"]_vars
  /\ [](PayloadPlace_verify(payload_place) <=> payload_place.state = "Done")

\* C27 witness: a command that was started flying to its location has reached
\* Done through later ticks, one of which found a landing while in Done
C27_Witness ==
  /\ call.op = "payload_place.run"
  /\ payload_place.state = "Done"
  /\ PayloadPlace_verify(payload_place)
  /\ Has(log, "soften_for_landing_NE")

\* ============================================ payload place: the abort edges
\* the ticks that get past the test of is_disarmed_or_landed() in the state pp
LiveTicks(pp) ==
  UNION {{in \in PlaceTicks(pp, call.now_ms + dt) : ~in.safe} : dt \in {600, 2000}}

\* the PayloadPlace object as the two checks ahead of the switch leave it
AfterChecks(pp, in) ==
  PayloadPlace_gripper(PayloadPlace_landed([pp |-> pp, log |-> <<>>], in), in).pp

BeforeDescent == {"FlyToLocation", "Descent_Start"}

AfterDescent == {"Release", "Releasing", "Delay", "Ascent_Start", "Ascent", "Done"}

\* C28: for every tick of PayloadPlace::run in every reachable state: an open
\* gripper seen in FlyToLocation or Descent_Start leaves the state Done at once,
\* with no descent commanded and no release step; a landing detection or an open
\* gripper seen in Descent sets the state to Release ahead of the switch, which
\* then performs the release step on the same tick; in Release, Releasing, Delay,
\* Ascent_Start, Ascent and Done the two checks leave the object alone; and in
\* FlyToLocation, Descent_Start and the later states a landing detection makes no
\* difference to the object the tick leaves.
C28_AbortEdges ==
  (call.op \in {"do_payload_place", "payload_place.run"} /\ call.started) =>
  \A in \in LiveTicks(payload_place) :
    LET pp == payload_place
        r == PayloadPlace_run(pp, in)
        quiet == PayloadPlace_run(pp, [in EXCEPT !.land = FALSE])
    IN /\ (pp.state \in BeforeDescent /\ in.gripper = "open")
            => /\ AfterChecks(pp, in).state = "Done"
               /\ r.pp.state = "Done"
               /\ ~Has(r.log, "land_at_climb_rate:descent")
               /\ ~Has(r.log, "init_U_controller_no_descent")
               /\ ~Has(r.log, "gripper.release")
       /\ (pp.state = "Descent" /\ (in.land \/ in.gripper = "open"))
            => /\ AfterChecks(pp, in).state = "Release"
               /\ Has(r.log, "init_U_controller_no_descent")
               /\ r.pp.state \in {"Releasing", "Delay"}
       /\ pp.state \in AfterDescent => AfterChecks(pp, in) = pp
       /\ pp.state # "Descent" => r.pp = quiet.pp

\* C28 witness: a tick found the gripper open ahead of the descent and ended the
\* command, and a landing is detected in the state Done it left
C28_Witness ==
  /\ call.op = "payload_place.run"
  /\ payload_place.state = "Done"
  /\ Has(log, "gcs:Abort: Gripper Open")
  /\ Has(log, "soften_for_landing_NE")

\* ===================================== payload place: the release by thrust
\* The descent ticked every 250 or 500 ms, so that several ticks fall into the
\* calibration of 2000 ms and into the 500 ms a touchdown has to last.  call
\* keeps, apart from pp, what the ticks of this descent have read:
\*   began      the time of the tick that ran case State::Descent_Start
\*   last_slow  the time of the latest tick whose desired descent rate was
\*              under 95% of descent_speed_cms, -1 when there was none
\*   cal_min    the lowest thrust read on a tick of a calibration, 100 at first
\*   hist       the readings of this tick and of the ticks up to 500 ms before
\* A tick that finds a landing in the state Descent goes to the release without
\* reaching the tests of the descent.
MaxThrustNowMs == 3500

ThrustSteps == {250, 500}

\* the readings of a tick of the descent at time now_ms
DescentTicks(now_ms) ==
  {[DefaultPlaceTick EXCEPT !.now_ms = now_ms, !.land = land, !.descending = descending,
                            !.thrust_level = thrust_level, !.rng = rng] :
     land \in BOOLEAN, descending \in BOOLEAN, thrust_level \in {100, 80, 70},
     rng \in {"unset", "high"}}

InitThrust == Idle /\ InitSub

\* do_payload_place of a command without a location: the descent starts at once
DescentStart ==
  /\ call.op = "none"
  /\ \E p1 \in {0, 200} :
       payload_place' = PayloadPlace_start(payload_place, [loc |-> FALSE, p1 |-> p1], TRUE)
  /\ call' = [op |-> "do_payload_place", now_ms |-> 0, began |-> -1, last_slow |-> -1,
              cal_min |-> 100, hist |-> {}]
  /\ UNCHANGED <<dwell, main, loiter_to_alt, circle_last_num_complete, nav_scripting>>

\* a tick of PayloadPlace::run while the state is Descent_Start or Descent
DescentTick ==
  /\ call.op \in {"do_payload_place", "descent.tick"}
  /\ payload_place.state \in {"Descent_Start", "Descent"}
  /\ \E dt \in ThrustSteps :
       /\ call.now_ms + dt <= MaxThrustNowMs
       /\ \E in \in DescentTicks(call.now_ms + dt) :
            LET r == PayloadPlace_run(payload_place, in)
                began == IF payload_place.state = "Descent_Start"
                         THEN in.now_ms ELSE call.began
                since == IF call.last_slow > began THEN call.last_slow ELSE began
                landed == in.land /\ payload_place.state = "Descent"
                calibrating == /\ ~landed
                               /\ in.descending
                               /\ in.now_ms - since < 2000
            IN /\ payload_place' = r.pp
               /\ log' = r.log
               /\ call' = [op |-> "descent.tick", now_ms |-> in.now_ms, began |-> began,
                            last_slow |-> IF in.descending \/ landed
                                          THEN call.last_slow ELSE in.now_ms,
                            cal_min |-> IF calibrating
                                        THEN MIN(call.cal_min, in.thrust_level)
                                        ELSE call.cal_min,
                            hist |-> {h \in call.hist : h.t >= in.now_ms - 500}
                                     \cup {[t |-> in.now_ms, descending |-> in.descending,
                                            thrust_level |-> in.thrust_level]}]
  /\ UNCHANGED <<dwell, flightmode, _mode, waiting_to_start, auto_RTL, desired_speed_override,
                 auto_yaw, guided_limits, state, mission, session_starts, rechecks, last,
                 loiter_to_alt, circle_last_num_complete, nav_scripting>>

NextThrust == DescentStart \/ DescentTick

SpecThrust == InitThrust /\ [][NextThrust]_vars

\* the tick just taken released the load because of the thrust
ReleasedByThrust ==
  call.op = "descent.tick" /\ Has(log, "gcs:payload release thrust threshold")

\* C29: a tick releases the load because of the thrust only when (a) the descent
\* began at least 2000 ms ago and no tick less than 2000 ms ago had a desired
\* descent rate under 95% of the descent speed, and (b) on this tick and on every
\* tick of the 500 ms before it the descent rate was reached and the thrust
\* was at or below the placed fraction of the lowest thrust of the calibration:
\* a tick with a higher thrust or a lower rate starts the 500 ms again.
C29_ReleaseAfterCalibrationAndWindow ==
  ReleasedByThrust =>
    /\ call.now_ms - call.began >= 2000
    /\ call.last_slow # -1 => call.now_ms - call.last_slow >= 2000
    /\ payload_place.descent_thrust_level = call.cal_min
    /\ \A h \in call.hist :
         call.now_ms - h.t <= 500
           => /\ h.descending
              /\ h.thrust_level * 100 <= DefaultPlaceTick.placed_fraction * call.cal_min

\* C29 witness: a release by the thrust after a calibration that a slow tick had
\* restarted, with three ticks in the last 500 ms and a calibrated thrust below 1.0
C29_Witness ==
  /\ ReleasedByThrust
  /\ call.last_slow > call.began
  /\ call.cal_min < 100
  /\ Cardinality(call.hist) = 3

\* ================================== payload place: the maximum descent
\* the tick just taken gave the descent up at the maximum descent distance
MaxDescentAbort ==
  call.op = "payload_place.run" /\ Has(log, "gcs:Reached maximum descent")

AscentStates == {"Ascent_Start", "Ascent", "Done"}

\* C30: a tick in Descent with a maximum descent distance other than zero, with
\* the desired altitude more than that distance below descent_start_altitude_cm
\* and with neither a landing nor an open gripper, leaves the state Ascent_Start
\* without a release step; from such a tick on the state stays in Ascent_Start,
\* Ascent and Done and no tick commands the gripper to release; and with a
\* maximum of zero no tick gives the descent up for the distance.
C30_MaxDescentGoesToAscent ==
  /\ []((call.op \in {"do_payload_place", "payload_place.run"} /\ call.started)
          => \A in \in LiveTicks(payload_place) :
               LET pp == payload_place
                   r == PayloadPlace_run(pp, in)
                   below == pp.descent_start_altitude_cm - in.pos > pp.descent_max_cm
               IN /\ (/\ pp.state = "Descent"
                      /\ pp.descent_max_cm # 0
                      /\ below
                      /\ ~in.land
                      /\ in.gripper # "open")
                       => /\ r.pp.state = "Ascent_Start"
                          /\ Has(r.log, "gcs:Reached maximum descent")
                          /\ ~Has(r.log, "init_U_controller_no_descent")
                          /\ ~Has(r.log, "gripper.release")
                  /\ pp.descent_max_cm = 0 => ~Has(r.log, "gcs:Reached maximum descent"))
  /\ [](MaxDescentAbort
          => [](/\ payload_place.state \in AscentStates
                /\ ~Has(log, "gripper.release")
                /\ ~Has(log, "gcs:Releasing the gripper")))

\* C30 witness: a tick has just given the descent up more than 200 cm below its
\* start and left the state Ascent_Start with no release commanded
C30_Witness ==
  /\ MaxDescentAbort
  /\ payload_place.state = "Ascent_Start"
  /\ payload_place.descent_max_cm = 200
  /\ payload_place.descent_start_altitude_cm = 1000
  /\ ~Has(log, "gripper.release")

\* ============================================ loiter to altitude: the flags
\* ModeAuto::verify_loiter_to_alt on the struct l
verify_loiter_to_alt_flags(l) ==
  IF l.reached_destination_xy /\ l.reached_alt THEN TRUE ELSE FALSE

\* C31: a tick of loiter_to_alt_run never turns reached_destination_xy or
\* reached_alt from true to false, whatever the arrival test and the altitude
\* it reads; so a verify_loiter_to_alt that has returned true returns true
\* after every later tick, until do_loiter_to_alt starts the next command.
C31_ReachedFlagsSticky ==
  [][call'.op = "loiter_to_alt_run"
       => /\ loiter_to_alt.reached_destination_xy => loiter_to_alt'.reached_destination_xy
          /\ loiter_to_alt.reached_alt => loiter_to_alt'.reached_alt
          /\ verify_loiter_to_alt_flags(loiter_to_alt)
               => verify_loiter_to_alt_flags(loiter_to_alt')]_vars

\* C31 witness: after a command had run to completion a tick found the vehicle
\* away from the destination and 8 cm off the altitude, and verify stays true
C31_Witness ==
  /\ call.op = "loiter_to_alt_run"
  /\ ~call.in.safe /\ ~call.in.reached_wp /\ call.in.current_alt = 108
  /\ call.pre.loiter_start_done /\ call.pre.alt_error_cm = 8
  /\ verify_loiter_to_alt_flags(call.pre)
  /\ verify_loiter_to_alt_flags(loiter_to_alt)

\* ===================================================== Land with a location
\* the run() just made started the Land command, which names a location
LocatedLandStarted ==
  last.op = "run" /\ call.op = "start" /\ Has(log, "start_command") /\ mission.nav_cmd.loc

\* the run() just made polled the Land command in the state FlyToLocation
FlyPolled == last.op = "run" /\ call.op = "verify_land" /\ call.state = "FlyToLocation"

\* C32: the start of a Land command that names a location neither enters the
\* submode LAND nor calls land_start; verify never reports true in the state
\* FlyToLocation; and land_start is called for such a command only by a poll in
\* FlyToLocation that finds the destination reached, goes to Descending and
\* reports false, the destination being the one wp_start accepted for this
\* command (the submode WP that the start entered).
C32_LandControllerOnlyOnArrival ==
  /\ LocatedLandStarted => (_mode # "LAND" /\ ~Has(log, "land_start") /\ state = "FlyToLocation")
  /\ FlyPolled => ~call.ret
  /\ (FlyPolled /\ Has(log, "land_start"))
       => /\ call.v.reached
          /\ state = "Descending"
          /\ call.submode = "WP"

\* do_land and verify_land as coded (C32): as above, but the arrival the poll
\* finds is whatever wp_nav reports, whether or not the start of this command
\* had its destination accepted.
C32_DeferredLandStart ==
  /\ LocatedLandStarted => (_mode # "LAND" /\ ~Has(log, "land_start") /\ state = "FlyToLocation")
  /\ FlyPolled => /\ ~call.ret
                  /\ Has(log, "land_start") <=> call.v.reached
                  /\ call.v.reached => (state = "Descending" /\ _mode = "LAND")
                  /\ ~call.v.reached => (state = "FlyToLocation" /\ _mode = call.submode)

\* C32 witness: the start of the Land command had its destination refused and
\* left the submode alone; a poll then found wp_nav reporting its destination
\* reached and started the land controller
C32_Witness ==
  /\ FlyPolled
  /\ call.submode # "WP"
  /\ call.v.reached
  /\ Has(log, "land_start")
  /\ state = "Descending" /\ _mode = "LAND"

\* ================================================== circle: moving to the edge
\* distances in cm from the closest point on the circle
EdgeDists == {0, 299, 300, 301, 1000}

\* circle_movetoedge_start with the edge 3 m or more away flying to it
circle_movetoedge_start_inclusive(s, dist_to_edge, e) ==
  circle_movetoedge_start(s, [e EXCEPT !.far = dist_to_edge >= 300])

\* circle_movetoedge_start, lines 520-526: dist_to_edge is what
\* get_closest_point_on_circle_NEU_cm answers
circle_movetoedge_start_dist(s, dist_to_edge, e) ==
  circle_movetoedge_start(s, [e EXCEPT !.far = dist_to_edge > 300])

InitEdge == Idle /\ InitSub

\* the mission starts a circle command: do_circle ends in circle_movetoedge_start
EdgeStart ==
  /\ \E dist \in EdgeDists, e \in Vary(DefaultEnv, {"set_dest_ok", "outside"}) :
       /\ CommitCtl(circle_movetoedge_start_dist(S, dist, e))
       /\ call' = [op |-> "do_circle", dist |-> dist, outside |-> e.outside,
                    set_dest_ok |-> e.set_dest_ok, submode |-> _mode, reached |-> FALSE,
                    ret |-> FALSE]
  /\ UNCHANGED <<dwell, rechecks, last, loiter_to_alt, payload_place, circle_last_num_complete,
                 nav_scripting>>

\* the mission polls the circle command
EdgePoll ==
  /\ call.op \in {"do_circle", "verify_circle"}
  /\ \E cmd \in CmdsOf("NAV_LOITER_TURNS"), v \in Vary(DefaultVenv, {"reached", "done"}) :
       LET r == verify_circle(S, cmd, v)
       IN /\ CommitCtl(r)
          /\ call' = [call EXCEPT !.op = "verify_circle", !.submode = _mode,
                                   !.reached = v.reached, !.ret = r.ret]
  /\ UNCHANGED <<dwell, rechecks, last, loiter_to_alt, payload_place, circle_last_num_complete,
                 nav_scripting>>

NextEdge == EdgeStart \/ EdgePoll

SpecEdge == InitEdge /\ [][NextEdge]_vars

\* C33: the start of a circle command leaves the submode CIRCLE_MOVE_TO_EDGE when
\* the closest point on the circle is more than 300 cm away and CIRCLE when it is
\* 300 cm away or nearer; a poll made in CIRCLE_MOVE_TO_EDGE reports false, and
\* leaves the submode CIRCLE if it found the edge reached and CIRCLE_MOVE_TO_EDGE
\* if not.
C33_EdgeThresholdAndPoll ==
  /\ call.op = "do_circle"
       => _mode = (IF call.dist > 300 THEN "CIRCLE_MOVE_TO_EDGE" ELSE "CIRCLE")
  /\ (call.op = "verify_circle" /\ call.submode = "CIRCLE_MOVE_TO_EDGE")
       => /\ ~call.ret
          /\ _mode = (IF call.reached THEN "CIRCLE" ELSE "CIRCLE_MOVE_TO_EDGE")

\* C33 witness: a command started 301 cm from the circle was polled on its way to
\* the edge; the poll found the edge reached, began the circle and reported false
C33_Witness ==
  /\ call.op = "verify_circle"
  /\ call.dist = 301
  /\ call.submode = "CIRCLE_MOVE_TO_EDGE"
  /\ call.reached
  /\ _mode = "CIRCLE"
  /\ Has(log, "circle_nav.init")
  /\ ~call.ret

\* ======================================== NAV_SCRIPT_TIME: the order of the ids
\* C34: every successful do_nav_script_time assigns an id greater than every id
\* assigned before it since boot, however many commands were started, so that no
\* id is given to two commands.
C34_IdsStrictlyIncrease ==
  \A i, j \in 1..Len(call.issued) : i < j => call.issued[i] < call.issued[j]

\* do_nav_script_time as coded (C34): each successful start assigns the id before
\* it plus one in 16 bits, 65535 being followed by 0; the ids of the commands
\* started in a row differ from each other as long as fewer than 65536 are started.
C34_IdsCountInSixteenBits ==
  /\ nav_scripting.id \in 0..65535
  /\ \A j \in 2..Len(call.issued) : call.issued[j] = (call.issued[j - 1] + 1) % 65536
  /\ \A i, j \in 1..Len(call.issued) : i # j => call.issued[i] # call.issued[j]

\* C34 witness: the command after the one with the id 65535 was given the id 0
C34_IdWrapped ==
  /\ call.op = "do_nav_script_time"
  /\ Len(call.issued) >= 2
  /\ call.issued[Len(call.issued) - 1] = 65535
  /\ call.issued[Len(call.issued)] = 0
  /\ nav_scripting.id = 0 /\ ~nav_scripting.done

\* ====================================== verify_command: the item-reached message
\* verify_command on a command of the mission flown, in Auto
Polls == UNION {{[cmd |-> cmd, v |-> v] : v \in VerifyEnvs(S, cmd)} : cmd \in mission.items}

\* C35: in Auto, for every command, verify_command sends the mission-item-reached
\* message during the call exactly when it returns true.
C35_ReachedMessageWithEveryTrue ==
  flightmode = "AUTO"
    => \A p \in Polls :
         LET r == verify_command(S, p.cmd, p.v)
         IN r.ret <=> Has(r.log, "mission_item_reached")

\* verify_command as coded (C35): the message goes with every true result except
\* that of NAV_LOITER_TO_ALT, whose result is returned from inside the switch
\* with no message; no false result sends one.
C35_ReachedMessageButLoiterToAlt ==
  flightmode = "AUTO"
    => \A p \in Polls :
         LET r == verify_command(S, p.cmd, p.v)
         IN Has(r.log, "mission_item_reached")
              <=> (r.ret /\ p.cmd.id # "NAV_LOITER_TO_ALT")

\* C35 witness: Auto is flying a NAV_LOITER_TO_ALT command in its submode, and the
\* poll that finds it complete returns true without the message
C35_Witness ==
  /\ flightmode = "AUTO"
  /\ last.op = "run"
  /\ mission.state = "RUNNING"
  /\ mission.nav_cmd.id = "NAV_LOITER_TO_ALT"
  /\ _mode = "LOITER_TO_ALT"
  /\ \E v \in VerifyEnvs(S, mission.nav_cmd) :
       LET r == verify_command(S, mission.nav_cmd, v)
       IN r.ret /\ ~Has(r.log, "mission_item_reached")

\* ================================== payload place: the time the delay counts from
\* The command of SpecThrust starts at time 0 with place_start_time_ms as
\* constructed, and its ticks come later: place_start_time_ms is at or after
\* call.began exactly when a tick of this command has assigned it.
\* a tick has just taken the load to the release and left the state for the delay
AtDelay ==
  call.op = "descent.tick" /\ payload_place.state \in {"Releasing", "Delay"}

\* C36: whenever the descent ends in the release and the delay, whether by the
\* thrust, by a landing detected in Descent or by the gripper opened in Descent,
\* place_start_time_ms has been assigned by a tick of this command, so the delay
\* is never counted from a time left by an earlier command or by the boot.
C36_DelayCountsFromThisCommand ==
  AtDelay => payload_place.place_start_time_ms >= call.began

\* PayloadPlace::run as coded (C36): the release by the thrust always follows an
\* assignment of place_start_time_ms by a calibration tick of this command, more
\* than 500 ms before it.
C36_ThrustReleaseTimed ==
  ReleasedByThrust
    => /\ payload_place.place_start_time_ms >= call.began
       /\ call.now_ms - payload_place.place_start_time_ms > 500

\* C36 witness: a landing was detected in Descent before the descent rate was
\* ever reached; the state is Delay with place_start_time_ms as the boot left it,
\* 1500 ms or more in the past, so the next tick starts the ascent
C36_StaleDelay ==
  /\ AtDelay
  /\ Has(log, "gcs:landed")
  /\ payload_place.place_start_time_ms = 0
  /\ payload_place.descent_thrust_level = 100
  /\ call.now_ms - payload_place.place_start_time_ms
       >= 500 + DefaultPlaceTick.delay_ms

PayloadPlace_start_descent(s) == Call([s EXCEPT !.auto_yaw = "HOLD"], "start_descent")

\* the commands that load a navigation command into the mission library
YawNavIds ==
  {"NAV_VTOL_TAKEOFF", "NAV_TAKEOFF", "NAV_WAYPOINT", "NAV_VTOL_LAND", "NAV_LAND",
   "NAV_LOITER_UNLIM", "NAV_LOITER_TURNS", "NAV_LOITER_TIME", "NAV_LOITER_TO_ALT",
   "NAV_RETURN_TO_LAUNCH", "NAV_SPLINE_WAYPOINT", "NAV_GUIDED_ENABLE", "NAV_DELAY",
   "NAV_PAYLOAD_PLACE", "NAV_SCRIPT_TIME", "NAV_ATTITUDE_TIME"}

\* the commands of the mission flown: those that start a sub-controller with a
\* yaw mode of its own, and those that set the yaw mode
YawIds ==
  {"NAV_TAKEOFF", "NAV_WAYPOINT", "NAV_SPLINE_WAYPOINT", "NAV_LAND", "NAV_LOITER_UNLIM",
   "NAV_LOITER_TIME", "NAV_LOITER_TURNS", "NAV_PAYLOAD_PLACE", "CONDITION_YAW",
   "DO_SET_ROI", "DO_SET_ROI_NONE", "DO_MOUNT_CONTROL"}

YawMission == {c \in Cmds : c.id \in YawIds /\ c.p1 = 0}

InitYaw == InitCtl({YawMission}) /\ InitSub

\* the flight mode changes to Auto
YawInit ==
  /\ flightmode # "AUTO"
  /\ \E ignore_checks \in BOOLEAN, i \in InitInputs :
       LET r == set_mode_auto(S, ignore_checks, i)
       IN /\ Commit(r)
          /\ last' = Last("init", r.ret, FALSE, DefaultInit, DefaultRun)
  /\ UNCHANGED rechecks

\* the flight mode changes from Auto to another mode
YawExit ==
  /\ flightmode = "AUTO"
  /\ Commit(set_mode_other(S, "set_mode:OTHER"))
  /\ last' = Last("exit", TRUE, FALSE, DefaultInit, DefaultRun)
  /\ UNCHANGED rechecks

\* the running mission loads a command and calls start_command
YawStart ==
  /\ flightmode = "AUTO"
  /\ \E cmd \in mission.items : \E e \in StartEnvs(S, cmd) :
       LET s0 == IF cmd.id \in YawNavIds
                 THEN [S EXCEPT !.mission.state = "RUNNING", !.mission.nav_cmd = cmd]
                 ELSE [S EXCEPT !.mission.state = "RUNNING"]
           r == start_command(s0, cmd, e)
       IN /\ CommitCtl(r)
          /\ last' = [Last("start_command", r.ret, FALSE, DefaultInit, DefaultRun)
                         EXCEPT !.id = cmd.id, !.pre_yaw = auto_yaw]
          /\ payload_place' = IF cmd.id = "NAV_PAYLOAD_PLACE"
                              THEN PayloadPlace_start(payload_place, cmd,
                                                      r._mode = "NAV_PAYLOAD_PLACE")
                              ELSE payload_place
  /\ UNCHANGED <<dwell, rechecks, call, loiter_to_alt, circle_last_num_complete, nav_scripting>>

\* the running mission polls its navigation command or a CONDITION_YAW command
YawPoll ==
  /\ flightmode = "AUTO" /\ mission.state = "RUNNING"
  /\ \E cmd \in ({mission.nav_cmd} \ {NoCmd}) \cup CmdsOf("CONDITION_YAW") :
     \E v \in VerifyEnvs(S, cmd) :
       LET r == verify_command(S, cmd, v)
           r1 == IF r.ret /\ cmd.id \in YawNavIds
                 THEN [r EXCEPT !.mission.nav_cmd = NoCmd]
                 ELSE r
       IN /\ CommitCtl(r1)
          /\ last' = [Last("verify_command", r.ret, FALSE, DefaultInit, DefaultRun)
                         EXCEPT !.id = cmd.id, !.pre_yaw = auto_yaw]
  /\ UNCHANGED <<rechecks, sub>>

\* the mission runs out of commands
YawEnd ==
  /\ flightmode = "AUTO" /\ mission.state = "RUNNING"
  /\ \E x \in [land_complete : BOOLEAN, position_ok : BOOLEAN] :
       LET s0 == [S EXCEPT !.mission.state = "COMPLETE", !.mission.nav_cmd = NoCmd]
           r == exit_mission(s0, x)
       IN /\ CommitCtl(r)
          /\ last' = [Last("exit_mission", r.ret, FALSE, DefaultInit, DefaultRun)
                         EXCEPT !.pre_yaw = auto_yaw]
  /\ UNCHANGED <<rechecks, sub>>

\* the payload place tick finds the vehicle at the place location
YawDescent ==
  /\ flightmode = "AUTO" /\ _mode = "NAV_PAYLOAD_PLACE"
  /\ payload_place.state = "FlyToLocation"
  /\ CommitCtl(PayloadPlace_start_descent(S))
  /\ last' = [Last("start_descent", FALSE, FALSE, DefaultInit, DefaultRun)
                 EXCEPT !.pre_yaw = auto_yaw]
  /\ payload_place' = [payload_place EXCEPT !.state = "Descent_Start"]
  /\ UNCHANGED <<dwell, rechecks, call, loiter_to_alt, circle_last_num_complete, nav_scripting>>

NextYaw == YawInit \/ YawExit \/ YawStart \/ YawPoll \/ YawEnd \/ YawDescent

SpecYaw == InitYaw /\ [][NextYaw]_vars

\* the commands whose start leaves a ROI yaw mode alone
RoiKeepers ==
  {"NAV_WAYPOINT", "NAV_SPLINE_WAYPOINT", "NAV_LOITER_UNLIM", "NAV_LOITER_TIME",
   "NAV_LOITER_TO_ALT", "NAV_LOITER_TURNS"}

\* the last operation is one of those the yaw mode ROI is known to end with
RoiReplacer ==
  \/ last.op = "init" /\ last.ret /\ auto_yaw = "HOLD"
  \/ /\ last.op = "start_command" /\ last.id \in {"NAV_TAKEOFF", "NAV_VTOL_TAKEOFF"}
     /\ Has(log, "auto_takeoff.start") /\ auto_yaw = "HOLD"
  \/ /\ last.op \in {"start_command", "verify_command"}
     /\ last.id \in {"NAV_LAND", "NAV_VTOL_LAND"}
     /\ Has(log, "land_start") /\ auto_yaw = "HOLD"
  \/ last.op = "exit_mission" /\ _mode = "LOITER" /\ auto_yaw = "HOLD"
  \/ last.op = "start_descent" /\ auto_yaw = "HOLD"
  \/ last.op = "start_command" /\ last.id = "NAV_PAYLOAD_PLACE" /\ auto_yaw = "HOLD"
  \/ /\ last.op \in {"start_command", "verify_command"}
     /\ last.id = "CONDITION_YAW" /\ auto_yaw = "FIXED"
  \/ /\ last.op = "start_command"
     /\ last.id \in {"DO_SET_ROI", "DO_SET_ROI_LOCATION", "DO_SET_ROI_NONE"}

\* a DO_MOUNT_CONTROL command on a mount without pan control has yawed the vehicle
RoiEndedByMount ==
  /\ last.op = "start_command" /\ last.id = "DO_MOUNT_CONTROL"
  /\ Has(log, "auto_yaw.set_yaw_angle_offset_deg") /\ auto_yaw = "ANGLE_RATE"

C39_RoiReplacedByListedOrMount ==
  last.pre_yaw = "ROI"
    => /\ (last.op = "start_command" /\ last.id \in RoiKeepers) => auto_yaw = "ROI"
       /\ auto_yaw # "ROI" => (RoiReplacer \/ RoiEndedByMount)

DTS6012M_FRAME_HEADER == 165
DTS6012M_DEVICE_ID == 3
DTS6012M_DEVICE_TYPE == 32
DTS6012M_CMD_START_STREAM == 1
DTS6012M_HEADER_LEN == 7
DTS6012M_DATA_LEN == 14
DTS6012M_CRC_LEN == 2
DTS6012M_FRAME_LEN == DTS6012M_HEADER_LEN + DTS6012M_DATA_LEN + DTS6012M_CRC_LEN

\* bitwise exclusive or of two n-bit numbers
RECURSIVE Xor(_, _, _)
Xor(a, b, n) ==
  IF n = 0 THEN 0 ELSE (((a % 2) + (b % 2)) % 2) + 2 * Xor(a \div 2, b \div 2, n - 1)

\* one bit of the CRC-16/MODBUS shift register, n bits to go
RECURSIVE CrcShift(_, _)
CrcShift(crc, n) ==
  IF n = 0 THEN crc
  ELSE CrcShift(IF crc % 2 = 1 THEN Xor(crc \div 2, 40961, 16) ELSE crc \div 2, n - 1)

\* the CRC-16/MODBUS register crc taken over bytes k..len of buf; the register is
\* a uint16_t (the test on it also has TLC evaluate it byte by byte)
RECURSIVE crc_modbus_from(_, _, _, _)
crc_modbus_from(buf, len, k, crc) ==
  IF k > len \/ crc \notin 0..65535 THEN crc
  ELSE crc_modbus_from(buf, len, k + 1, CrcShift(Xor(crc, buf[k], 16), 8))

\* calc_crc_modbus(buf, len): CRC-16/MODBUS of the first len bytes
calc_crc_modbus(buf, len) == crc_modbus_from(buf, len, 1, 65535)

\* be16toh of the two bytes at the 0-based offset off of the frame
be16(buf, off) == buf[off + 1] * 256 + buf[off + 2]

\* the driver object: the frame buffer (byte k of the frame is buf[k + 1]),
\* linebuf_len (uint8_t) and got_reading; with the result of the last
\* get_reading, whether it resynchronised, whether it sent the start command and
\* the end (exclusive, 0-based) of the bytes of the frame it touched
NoDriver ==
  [buf |-> [k \in 1..DTS6012M_FRAME_LEN |-> 0], linebuf_len |-> 0, got_reading |-> FALSE,
   ret |-> FALSE, resync |-> FALSE, start_sent |-> FALSE, touched |-> 0]

Larger(a, b) == IF a > b THEN a ELSE b

\* AP_RangeFinder_DTS6012M::find_signature_in_buffer(start)
find_signature_in_buffer(f, start) ==
  LET hits == {i \in start..(f.linebuf_len - 1) : f.buf[i + 1] = DTS6012M_FRAME_HEADER}
      f1 == [f EXCEPT !.resync = TRUE, !.touched = Larger(@, f.linebuf_len)]
  IN IF hits = {}
     THEN [f1 EXCEPT !.linebuf_len = 0]
     ELSE LET i == CHOOSE h \in hits : \A g \in hits : h <= g
          IN [f1 EXCEPT
                !.buf = [k \in 1..DTS6012M_FRAME_LEN |->
                           IF k <= f.linebuf_len - i THEN f.buf[k + i] ELSE f.buf[k]],
                !.linebuf_len = f.linebuf_len - i]

\* get_reading built with DTS6012M_CRC_ENABLE 0
get_reading_crc_disabled(f, uart, rd) ==
  IF ~uart
  THEN [f EXCEPT !.ret = FALSE, !.resync = FALSE, !.start_sent = FALSE, !.touched = 0]
  ELSE
  LET n == Len(rd)
      f0 == [f EXCEPT
               !.ret = FALSE, !.resync = FALSE, !.start_sent = ~f.got_reading,
               !.buf = [k \in 1..DTS6012M_FRAME_LEN |->
                          IF k > f.linebuf_len /\ k <= f.linebuf_len + n
                          THEN rd[k - f.linebuf_len] ELSE f.buf[k]],
               !.linebuf_len = (f.linebuf_len + n) % 256,
               !.touched = IF n > 0 THEN f.linebuf_len + n ELSE 0]
  IN IF f0.linebuf_len = 0 THEN f0
     ELSE IF f0.buf[1] # DTS6012M_FRAME_HEADER THEN find_signature_in_buffer(f0, 1)
     ELSE IF f0.linebuf_len < DTS6012M_FRAME_LEN THEN f0
     ELSE IF \/ f0.buf[2] # DTS6012M_DEVICE_ID
             \/ f0.buf[3] # DTS6012M_DEVICE_TYPE
             \/ f0.buf[4] # DTS6012M_CMD_START_STREAM
          THEN find_signature_in_buffer(f0, 1)
     ELSE IF be16(f0.buf, 5) # DTS6012M_DATA_LEN THEN find_signature_in_buffer(f0, 1)
     ELSE [f0 EXCEPT !.linebuf_len = 0, !.got_reading = TRUE, !.ret = TRUE,
                     !.touched = DTS6012M_FRAME_LEN]

\* AP_RangeFinder_DTS6012M::get_reading; uart is FALSE for a null uart, rd is
\* what uart->read returned into &buf[linebuf_len]
get_reading(f, uart, rd) ==
  IF ~uart
  THEN [f EXCEPT !.ret = FALSE, !.resync = FALSE, !.start_sent = FALSE, !.touched = 0]
  ELSE
  LET n == Len(rd)
      f0 == [f EXCEPT
               !.ret = FALSE, !.resync = FALSE, !.start_sent = ~f.got_reading,
               !.buf = [k \in 1..DTS6012M_FRAME_LEN |->
                          IF k > f.linebuf_len /\ k <= f.linebuf_len + n
                          THEN rd[k - f.linebuf_len] ELSE f.buf[k]],
               !.linebuf_len = (f.linebuf_len + n) % 256,
               !.touched = IF n > 0 THEN f.linebuf_len + n ELSE 0]
  IN IF f0.linebuf_len = 0 THEN f0
     ELSE IF f0.buf[1] # DTS6012M_FRAME_HEADER THEN find_signature_in_buffer(f0, 1)
     ELSE IF f0.linebuf_len < DTS6012M_FRAME_LEN THEN f0
     ELSE IF \/ f0.buf[2] # DTS6012M_DEVICE_ID
             \/ f0.buf[3] # DTS6012M_DEVICE_TYPE
             \/ f0.buf[4] # DTS6012M_CMD_START_STREAM
          THEN find_signature_in_buffer(f0, 1)
     ELSE IF be16(f0.buf, 5) # DTS6012M_DATA_LEN THEN find_signature_in_buffer(f0, 1)
     ELSE IF calc_crc_modbus(f0.buf, DTS6012M_FRAME_LEN - DTS6012M_CRC_LEN)
               # be16(f0.buf, DTS6012M_FRAME_LEN - DTS6012M_CRC_LEN)
          THEN find_signature_in_buffer(f0, 1)
     ELSE [f0 EXCEPT !.linebuf_len = 0, !.got_reading = TRUE, !.ret = TRUE,
                     !.touched = DTS6012M_FRAME_LEN]

\* a frame with the given header fields and data, its CRC-16 sent high byte first
Frame(id, type, cmd, len, data) ==
  LET body == <<DTS6012M_FRAME_HEADER, id, type, cmd, 0, len \div 256, len % 256>> \o data
      crc == calc_crc_modbus(body, Len(body))
  IN body \o <<crc \div 256, crc % 256>>

\* measurement data: a secondary target, and a primary target at 1234 mm whose
\* intensity bytes hold the value of the frame header
Data == <<0, 0, 0, 0, 0, 0, 0, 0, 210, 4, 0, 165, 3, 0>>

GoodFrame ==
  Frame(DTS6012M_DEVICE_ID, DTS6012M_DEVICE_TYPE, DTS6012M_CMD_START_STREAM,
        DTS6012M_DATA_LEN, Data)

\* the good frame with its last CRC byte corrupted
BadCrcFrame == [GoodFrame EXCEPT ![DTS6012M_FRAME_LEN] = (@ + 1) % 256]

\* what the sensor and the line send: frames, line noise with a false header,
\* a frame cut short, a wrong device id, a wrong command echo, a wrong length
Streams ==
  {GoodFrame \o GoodFrame,
   <<0, 165, 3>> \o GoodFrame,
   BadCrcFrame \o GoodFrame,
   SubSeq(GoodFrame, 1, 10) \o GoodFrame,
   Frame(4, DTS6012M_DEVICE_TYPE, DTS6012M_CMD_START_STREAM, DTS6012M_DATA_LEN, Data)
     \o GoodFrame,
   Frame(DTS6012M_DEVICE_ID, DTS6012M_DEVICE_TYPE, 2, DTS6012M_DATA_LEN, Data) \o GoodFrame,
   Frame(DTS6012M_DEVICE_ID, 33, DTS6012M_CMD_START_STREAM, DTS6012M_DATA_LEN, Data)
     \o GoodFrame,
   Frame(DTS6012M_DEVICE_ID, DTS6012M_DEVICE_TYPE, DTS6012M_CMD_START_STREAM, 15, Data)
     \o GoodFrame}

\* the driver as constructed, and the bytes still on their way to it
InitDriver ==
  /\ Idle /\ InitStructs
  /\ call \in {[op |-> "get_reading", frame |-> NoDriver, rx |-> s, uart |-> u] :
                 s \in Streams, u \in BOOLEAN}

\* the rangefinder update calls get_reading: uart->read returns some of the
\* bytes that have arrived, no more than the room left in the frame; an accepted
\* frame discards the input that had arrived by then
DriverRead ==
  /\ call.op = "get_reading"
  /\ \E n \in 0..(IF Len(call.rx) < DTS6012M_FRAME_LEN - call.frame.linebuf_len
                  THEN Len(call.rx)
                  ELSE DTS6012M_FRAME_LEN - call.frame.linebuf_len) :
       LET m == IF call.uart THEN n ELSE 0
           r == get_reading(call.frame, call.uart, SubSeq(call.rx, 1, m))
           rest == SubSeq(call.rx, m + 1, Len(call.rx))
       IN \E d \in (IF r.ret THEN 0..Len(rest) ELSE {0}) :
            call' = [call EXCEPT !.frame = r, !.rx = SubSeq(rest, d + 1, Len(rest))]
  /\ UNCHANGED <<flightmode, _mode, waiting_to_start, auto_RTL, desired_speed_override,
                 auto_yaw, guided_limits, state, mission, session_starts, rechecks, last, log,
                 loiter_to_alt, payload_place, circle_last_num_complete, nav_scripting, dwell>>

NextDriver == DriverRead

SpecDriver == InitDriver /\ [][NextDriver]_vars

\* the frame in the buffer passes every test of get_reading
FrameMatches(buf) ==
  /\ buf[1] = DTS6012M_FRAME_HEADER
  /\ buf[2] = DTS6012M_DEVICE_ID
  /\ buf[3] = DTS6012M_DEVICE_TYPE
  /\ buf[4] = DTS6012M_CMD_START_STREAM
  /\ be16(buf, 5) = DTS6012M_DATA_LEN
  /\ calc_crc_modbus(buf, 21) = be16(buf, 21)

\* C40: after any sequence of get_reading calls linebuf_len is at most the frame
\* size of 23 bytes, the call touched no byte beyond the frame, a call that
\* resynchronised and left bytes buffered left the frame header 0xA5 first, and a
\* call that returned true did so on a frame whose header, device id, device
\* type, command echo, data length 14 and CRC all match.
C40_DriverBufferAndAcceptance ==
  call.op = "get_reading"
    => /\ call.frame.linebuf_len <= DTS6012M_FRAME_LEN
       /\ call.frame.touched <= DTS6012M_FRAME_LEN
       /\ (call.frame.resync /\ call.frame.linebuf_len # 0)
            => call.frame.buf[1] = DTS6012M_FRAME_HEADER
       /\ call.frame.ret
            => FrameMatches(call.frame.buf) /\ call.frame.linebuf_len = 0

\* after a frame was accepted, a later call found bytes that did not start a
\* frame, resynchronised and kept the bytes from the next header byte on
C40_Witness ==
  /\ call.op = "get_reading" /\ call.frame.got_reading
  /\ call.frame.resync /\ call.frame.linebuf_len # 0
  /\ call.frame.buf[1] = DTS6012M_FRAME_HEADER

====
